---- MODULE Spec2Model ----
(***************************************************************************)
(* Model of minidrive: the Scene batch (render_system/scene.rs) and the    *)
(* GameWorld entity loop (entity.rs).                                      *)
(*                                                                         *)
(* Five specifications:                                                    *)
(*   SpecScene  one Scene<K, Vertex> driven by add_object, remove_object   *)
(*              and vertex_buffer, constructed from any initial map;       *)
(*   Spec       one GameWorld driven by add_entity, remove_entity, step,   *)
(*              render and handle_window_event;                            *)
(*   SpecCamera one TrackballCamera (camera.rs) driven by window events;   *)
(*   SpecKeyboard one KeyboardState (handle_user_input.rs) applied to a    *)
(*              PerspectiveCamera;                                         *)
(*   SpecRenderer the window renderer (rendering3d.rs) and one offscreen   *)
(*              renderer, under every answer of the graphics API.          *)
(***************************************************************************)
EXTENDS Integers, Sequences, FiniteSets, TLC

VARIABLES
    \* ---- SpecScene: a stand-alone Scene ----
    scene,            \* the Scene struct (scene.rs:8-13)
    returned,         \* value returned by the last Scene::vertex_buffer() call
    scene_op,         \* history: last Scene method called, its key, and the
                      \* number of mutations since the read before it
    since_read,       \* history: mutations since the previous vertex_buffer()
    \* ---- Spec: the GameWorld struct (entity.rs:90-112) ----
    entities,
    dynamic_scene,
    static_scene,
    rigid_body_set,
    per_window_state,
    user_input_state,
    panicked,         \* an index/unwrap in a handler panicked
    \* ---- Spec: history ----
    next_handle,      \* next RigidBodyHandle the body set hands out
    created,          \* id -> the EntityCreationData facts of the latest add_entity
    call_log,         \* the effects of the last GameWorld call, in the
                      \* order the code performs them
    observations,     \* value returned by the last call, if it was step()
    steps,            \* number of step() calls so far
    events,           \* number of window events handled so far
    calls,            \* number of GameWorld method calls so far
    \* ---- SpecCamera: a stand-alone TrackballCamera ----
    trackball,        \* the TrackballCamera struct (camera.rs:151-178)
    camera_op,        \* history: the last event handled, whether the camera
                      \* was being dragged before it, and where the pointer
                      \* was before it
    pointer_events,   \* number of events the camera has handled
    \* ---- SpecKeyboard: a KeyboardState driving a PerspectiveCamera ----
    keyboard_state,   \* the KeyboardState struct (handle_user_input.rs:5-16)
    perspective,      \* the PerspectiveCamera struct (camera.rs:49-62)
    keyboard_op,      \* history: the last call and the camera before it
    key_calls,        \* number of calls made so far
    \* ---- SpecRenderer: the interactive and one offscreen renderer ----
    renderer3d,       \* rendering3d::Renderer
    offscreen,        \* offscreen_rendering::Renderer
    renderer_op,      \* history: the last call, its inputs and outcomes
    frames            \* number of renderer calls made so far

vars == <<scene, returned, scene_op, since_read,
          entities, dynamic_scene, static_scene, rigid_body_set,
          per_window_state, user_input_state, panicked,
          next_handle, created, call_log, observations, steps, events, calls,
          trackball, camera_op, pointer_events,
          keyboard_state, perspective, keyboard_op, key_calls,
          renderer3d, offscreen, renderer_op, frames>>

scene_vars == <<scene, returned, scene_op, since_read>>

camera_vars == <<trackball, camera_op, pointer_events>>

keyboard_vars == <<keyboard_state, perspective, keyboard_op, key_calls>>

renderer_vars == <<renderer3d, offscreen, renderer_op, frames>>

world_vars == <<entities, dynamic_scene, static_scene, rigid_body_set,
                per_window_state, user_input_state, panicked,
                next_handle, created, call_log, observations,
                steps, events, calls>>

(***************************************************************************)
(* Bounds                                                                  *)
(***************************************************************************)
MaxKey == 2          \* object keys / entity ids are 1..MaxKey
MaxMutations == 3    \* add_object/remove_object calls between two reads
MaxSteps == 2        \* step() calls in one behaviour
MaxEvents == 2       \* window events in one behaviour
MaxCalls == 4        \* GameWorld method calls in one behaviour
MaxCameras == 1      \* sensor cameras requested per entity
MaxPointerEvents == 6 \* events and updates handled by the stand-alone trackball camera
MaxKeyCalls == 5     \* key events and apply_to_camera calls in one behaviour
MaxFrames == 4       \* renderer calls in one behaviour

Keys == 1..MaxKey

\* tracking_entity values given to GameWorld::new
TrackedIds == {1}

(***************************************************************************)
(* Vertices: mVertex { loc, color }                                        *)
(***************************************************************************)
mVertex(loc, color) == [loc |-> loc, color |-> color]

VA == mVertex(<<0, 0, 0>>, 1)
VB == mVertex(<<1, 0, 0>>, 2)

\* vertex lists handed to Scene::add_object / Scene::new in SpecScene
VertexLists == { <<>>, <<VA>>, <<VB>>, <<VA, VB>> }

(***************************************************************************)
(* Option<Subbuffer<[Vertex]>>                                             *)
(***************************************************************************)
NoBuffer == [some |-> FALSE, data |-> <<>>]
SomeBuffer(data) == [some |-> TRUE, data |-> data]

(***************************************************************************)
(* HashMap iteration order: some permutation of the keys, fixed by the     *)
(* hasher and not by the program.  An order is a sequence over all of Keys;*)
(* keys that are not in the map are skipped.                               *)
(***************************************************************************)
Orders ==
    { o \in [1..MaxKey -> Keys] : \A i, j \in 1..MaxKey : i # j => o[i] # o[j] }

\* the orders that can be told apart when iterating map m
OrdersOf(m) ==
    IF Cardinality(DOMAIN m) < 2 THEN { [i \in 1..MaxKey |-> i] } ELSE Orders

RECURSIVE flat_map(_, _)
flat_map(objects, order) ==
    IF order = <<>> THEN <<>>
    ELSE LET k == Head(order)
         IN  (IF k \in DOMAIN objects THEN objects[k] ELSE <<>>)
             \o flat_map(objects, Tail(order))

\* variant: a buffer is built also when there is no vertex
vertex_buffer_NoEmptyCheck(objects, order) ==
    SomeBuffer(flat_map(objects, order))

\* fn vertex_buffer(memory_allocator, objects) -> Option<Subbuffer<[Vertex]>>
vertex_buffer(objects, order) ==
    LET vertexes == flat_map(objects, order)
    IN  IF Len(vertexes) = 0 THEN NoBuffer ELSE SomeBuffer(vertexes)

(***************************************************************************)
(* Scene<K, Vertex>                                                        *)
(***************************************************************************)
Scene_new(objects, order) ==
    [ objects |-> objects,
      vertex_buffer |-> vertex_buffer(objects, order),
      vertex_buffer_needs_update |-> FALSE ]

MapInsert(m, k, v) == [x \in DOMAIN m \cup {k} |-> IF x = k THEN v ELSE m[x]]
MapRemove(m, k) == [x \in DOMAIN m \ {k} |-> m[x]]

\* variant: the insert leaves the dirty flag as it was
Scene_add_object_KeepsFlag(s, key, object) ==
    [ s EXCEPT !.objects = MapInsert(s.objects, key, object) ]

\* variant: the flag is set only when the insert changes the map
Scene_add_object_DirtyOnChange(s, key, object) ==
    [ s EXCEPT !.objects = MapInsert(s.objects, key, object),
               !.vertex_buffer_needs_update =
                   IF key \in DOMAIN s.objects /\ s.objects[key] = object
                   THEN @ ELSE TRUE ]

Scene_add_object(s, key, object) ==
    [ s EXCEPT !.objects = MapInsert(s.objects, key, object),
               !.vertex_buffer_needs_update = TRUE ]

\* variant: the removal never marks the cache stale
Scene_remove_object_NeverDirty(s, key) ==
    [ s EXCEPT !.objects = MapRemove(s.objects, key) ]

\* variant: the flag is set whether or not the key was present
Scene_remove_object_AlwaysDirty(s, key) ==
    [ s EXCEPT !.objects = MapRemove(s.objects, key),
               !.vertex_buffer_needs_update = TRUE ]

Scene_remove_object(s, key) ==
    LET removed_is_some == key \in DOMAIN s.objects
    IN  [ s EXCEPT !.objects = MapRemove(s.objects, key),
                   !.vertex_buffer_needs_update =
                       IF removed_is_some THEN TRUE ELSE @ ]

\* variant: every read rebuilds the buffer
Scene_vertex_buffer_AlwaysRebuilds(s, order) ==
    [ s EXCEPT !.vertex_buffer = vertex_buffer(s.objects, order),
               !.vertex_buffer_needs_update = FALSE ]

\* the Scene after vertex_buffer(); the call returns its vertex_buffer field
Scene_vertex_buffer(s, order) ==
    IF s.vertex_buffer_needs_update
    THEN [ s EXCEPT !.vertex_buffer = vertex_buffer(s.objects, order),
                    !.vertex_buffer_needs_update = FALSE ]
    ELSE s

\* all maps from a subset of Keys to vertex lists
ObjectMaps == UNION { [D -> VertexLists] : D \in SUBSET Keys }

(***************************************************************************)
(* Isometry3<f32> and the mesh transform.  Translations are integer        *)
(* triples, rotations are quarter turns about the Y axis (0..3).           *)
(***************************************************************************)
Isometry(translation, rotation) ==
    [translation |-> translation, rotation |-> rotation]

VAdd(a, b) == <<a[1] + b[1], a[2] + b[2], a[3] + b[3]>>

RECURSIVE Rotate(_, _)
Rotate(v, r) ==
    IF r = 0 THEN v ELSE Rotate(<<v[3], v[2], 0 - v[1]>>, r - 1)

\* object::transform(mesh, isometry): the rigid transform of every vertex
transform(mesh, isometry) ==
    [ i \in DOMAIN mesh |->
        mVertex(VAdd(Rotate(mesh[i].loc, isometry.rotation),
                     isometry.translation),
                mesh[i].color) ]

\* EntityCreationData { cameras, physics, mesh, isometry }; physics is
\* "none" (None), "dynamic" (is_dynamic: true) or "fixed" (is_dynamic: false)
EntityCreationData(ncameras, physics, mesh, isometry) ==
    [ cameras |-> ncameras, physics |-> physics, mesh |-> mesh,
      isometry |-> isometry ]

Origin == Isometry(<<0, 0, 0>>, 0)
Raised == Isometry(<<0, 2, 0>>, 1)

\* the creation data handed to add_entity
EntityCreationDatas ==
    { EntityCreationData(0, "none", <<VA>>, Raised),
      EntityCreationData(MaxCameras, "dynamic", <<VA, VB>>, Origin),
      EntityCreationData(0, "dynamic", <<VB>>, Raised),
      EntityCreationData(0, "fixed", <<VB>>, Raised) }

(***************************************************************************)
(* The rigid-body set.  Bodies move in free flight: one pipeline step adds *)
(* gravity to the linear velocity of each dynamic body and then integrates *)
(* position and rotation; fixed bodies never move.                         *)
(***************************************************************************)
NoHandle == 0
Gravity == <<0, -1, 0>>
ZeroVec == <<0, 0, 0>>

\* RigidBodyBuilder::dynamic()/fixed().position(isometry).build()
RigidBody(is_dynamic, isometry) ==
    [ position |-> isometry,
      linvel |-> ZeroVec,
      angvel |-> 0,
      body_type |-> IF is_dynamic THEN "dynamic" ELSE "fixed" ]

\* variant: the advance integrates the velocity and adds no gravity
BodyStep_NoGravity(b) ==
    IF b.body_type = "dynamic"
    THEN [ b EXCEPT !.position =
                        Isometry(VAdd(b.position.translation, b.linvel),
                                 (b.position.rotation + b.angvel) % 4) ]
    ELSE b

BodyStep(b) ==
    IF b.body_type = "dynamic"
    THEN LET v == VAdd(b.linvel, Gravity)
         IN  [ b EXCEPT !.linvel = v,
                        !.position =
                            Isometry(VAdd(b.position.translation, v),
                                     (b.position.rotation + b.angvel) % 4) ]
    ELSE b

\* physics_pipeline.step(gravity, ...) on the rigid body set
physics_pipeline_step(bodies) ==
    [ h \in DOMAIN bodies |-> BodyStep(bodies[h]) ]

apply_impulse(b, impulse) ==
    IF b.body_type = "dynamic"
    THEN [ b EXCEPT !.linvel = VAdd(b.linvel, impulse) ]
    ELSE b

apply_torque_impulse(b, torque_impulse) ==
    IF b.body_type = "dynamic"
    THEN [ b EXCEPT !.angvel = b.angvel + torque_impulse[2] ]
    ELSE b

(***************************************************************************)
(* UserInputState and the interactive (trackball) camera of the window     *)
(***************************************************************************)
\* the keys step() reads from UserInputState
MovementKeys == { "W", "A", "S", "D" }

WindowEvents ==
    [ kind : {"key"}, key : MovementKeys, pressed : BOOLEAN ]
    \cup [ kind : {"mouse"}, key : {"button"}, pressed : BOOLEAN ]

UserInputState_new == [ w |-> FALSE, a |-> FALSE, s |-> FALSE, d |-> FALSE ]

\* UserInputState::handle_input: a key event sets that key's flag to
\* (state == Pressed); other events leave the flags alone
handle_input(u, input) ==
    IF input.kind # "key" THEN u
    ELSE CASE input.key = "W" -> [ u EXCEPT !.w = input.pressed ]
           [] input.key = "A" -> [ u EXCEPT !.a = input.pressed ]
           [] input.key = "S" -> [ u EXCEPT !.s = input.pressed ]
           [] input.key = "D" -> [ u EXCEPT !.d = input.pressed ]

\* momentum_magnitude is 0.0 (NoMomentum) or damping_factor^n, stored as n
NoMomentum == -1

TrackballCamera_new ==
    [ root_pos |-> ZeroVec,
      rotation |-> 0,
      mouse_location |-> FALSE,      \* Option::is_some
      momentum_magnitude |-> NoMomentum ]

\* InteractiveCamera::update for TrackballCamera
Camera_update(c) ==
    IF ~c.mouse_location
    THEN [ c EXCEPT !.momentum_magnitude =
                        IF @ = NoMomentum THEN NoMomentum ELSE @ + 1 ]
    ELSE c

\* InteractiveCamera::handle_event for TrackballCamera (mouse buttons)
Camera_handle_event(c, input) ==
    IF input.kind # "mouse" THEN c
    ELSE IF input.pressed
         THEN [ c EXCEPT !.mouse_location = TRUE ]
         ELSE [ c EXCEPT !.momentum_magnitude =
                             IF c.mouse_location THEN 0 ELSE @,
                         !.mouse_location = FALSE ]

\* the cameras a caller hands to GameWorld::new in InteractiveRenderingConfig:
\* a fresh one, and one released from a drag (momentum_magnitude 1.0)
InteractiveCameras ==
    { TrackballCamera_new,
      [ TrackballCamera_new EXCEPT !.momentum_magnitude = 0 ] }

NoWindow == [ some |-> FALSE, entity_id |-> 0, camera |-> TrackballCamera_new ]
PerWindowState(tracking_entity, camera) ==
    [ some |-> TRUE, entity_id |-> tracking_entity, camera |-> camera ]

(***************************************************************************)
(* TrackballCamera in full (camera.rs:151-307), for SpecCamera.  The       *)
(* GameWorld specification keeps of its window camera only what step()     *)
(* and handle_window_event can tell apart (TrackballCamera_new above).     *)
(*                                                                         *)
(* Pointer positions are pixel pairs, normalized coordinates are exact     *)
(* fractions <<numerator, denominator>> in lowest terms, and rotations are *)
(* words over the rotations the code constructs: the unit quaternion is    *)
(* the empty word and the quaternion product is concatenation.             *)
(***************************************************************************)
PointerPositions == { <<1, 1>>, <<2, 1>>, <<1, 2>> }
Extents == { <<2, 2>>, <<4, 2>>, <<2, 4>> }

Abs(n) == IF n < 0 THEN 0 - n ELSE n

RECURSIVE GCD(_, _)
GCD(a, b) == IF b = 0 THEN a ELSE GCD(b, a % b)

\* the fraction n/d (d > 0) in lowest terms
Frac(n, d) == LET g == GCD(Abs(n), d) IN << n \div g, d \div g >>
FAdd(a, b) == Frac(a[1] * b[2] + b[1] * a[2], a[2] * b[2])
FMul(a, b) == Frac(a[1] * b[1], a[2] * b[2])
FNeg(a) == << 0 - a[1], a[2] >>
FLeq(a, b) == a[1] * b[2] <= b[1] * a[2]

\* camera.rs:210-221; 2.0 * (e.x - w / 2.0) / r = (2 * e.x - w) / r
\* variant: the pointer offset is divided by the width
get_normalized_mouse_coords_ByWidth(e, extent) ==
    << Frac(2 * e[1] - extent[1], extent[1]),
       Frac(2 * e[2] - extent[2], extent[1]) >>

get_normalized_mouse_coords(e, extent) ==
    LET trackball_radius == IF extent[1] < extent[2] THEN extent[1]
                            ELSE extent[2]
    IN  << Frac(2 * e[1] - extent[1], trackball_radius),
           Frac(2 * e[2] - extent[2], trackball_radius) >>

\* camera.rs:196-208, with r = 1; z is kept as the expression that
\* defines it
project_trackball(p) ==
    LET x == p[1]
        y == p[2]
        rsq == FAdd(FMul(x, x), FMul(y, y))
    IN  [ x |-> x,
          y |-> FNeg(y),
          z |-> IF FLeq(rsq, <<1, 2>>)
                THEN [ f |-> "sqrt(1 - a)", a |-> rsq ]
                ELSE [ f |-> "(1/2) / sqrt(a)", a |-> rsq ] ]

\* Vector3::normalize: the direction of v
normalize(v) == [ direction_of |-> v ]

\* UnitQuaternion::identity() and the quaternion product
Identity == << >>
QMul(a, b) == a \o b

\* UnitQuaternion::rotation_to(prev, curr): the shortest-arc rotation that
\* takes prev to curr, the identity when they are equal
rotation_to(prev, curr) ==
    IF prev = curr THEN Identity ELSE << [ from |-> prev, to |-> curr ] >>

FLess(a, b) == a[1] * b[2] < b[1] * a[2]

\* f32 values of momentum_magnitude and damping_factor (camera.rs:186, 192)
Zero == <<0, 1>>
One == <<1, 1>>
damping_factor == <<9, 10>>

\* slerp from a to b at t: a at t = 0.0, b at t = 1.0
slerp(a, b, t) ==
    IF t = Zero \/ a = b THEN a
    ELSE IF t = One THEN b
    ELSE << [ from |-> a, to |-> b, at |-> t ] >>

\* the pointer fields of UserInputState that TrackballCamera reads
\* (camera.rs:266, 270): x, y and the previous px, py, as pairs
UserInputState_pointer_new == [ x |-> <<0, 0>>, px |-> <<0, 0>> ]

\* winit::event::WindowEvent as the camera's match sees it
TrackballEvents ==
    [ kind : {"CursorMoved"}, position : PointerPositions, pressed : {FALSE} ]
    \cup [ kind : {"MouseInput"}, position : {<<0, 0>>}, pressed : BOOLEAN ]
    \cup [ kind : {"Other"}, position : {<<0, 0>>}, pressed : {FALSE} ]

\* UserInputState::handle_input on the pointer fields
handle_pointer_input(u, event) ==
    IF event.kind = "CursorMoved"
    THEN [ x |-> event.position, px |-> u.x ]
    ELSE u

\* Option<(Vector2, Vector2)>
NoDrag == [ some |-> FALSE, curr |-> <<>>, prev |-> <<>> ]
SomeDrag(curr, prev) == [ some |-> TRUE, curr |-> curr, prev |-> prev ]

\* the vector the drag rotation starts from: rotation_to(prev, curr) of
\* the pair (curr, prev) held in mouse_location (camera.rs:277-281, 289-293)
DragAnchor(c) == c.mouse_location.prev

\* TrackballCamera::new; x and dx are the fields the first CursorMoved arm
\* assigns (camera.rs:253-256)
Trackball_new(pos) ==
    [ root_pos |-> pos,
      user_input_state |-> UserInputState_pointer_new,
      mouse_location |-> NoDrag,
      base_q |-> Identity,
      curr_q |-> Identity,
      momentum_q |-> Identity,
      momentum_magnitude |-> Zero,
      x |-> <<0, 0>>,
      dx |-> <<0, 0>> ]

\* camera.rs:252-257: the arm every CursorMoved event takes.  The second
\* CursorMoved arm (camera.rs:276-283), which would set curr_q, comes later
\* in the match and is never selected.
Trackball_cursor_moved(c, event) ==
    [ c EXCEPT !.dx = << event.position[1] - c.x[1],
                         event.position[2] - c.x[2] >>,
               !.x = event.position ]

\* camera.rs:259-274, mouse down
Trackball_mouse_down(c, extent) ==
    [ c EXCEPT !.mouse_location =
        SomeDrag(get_normalized_mouse_coords(c.user_input_state.x, extent),
                 get_normalized_mouse_coords(c.user_input_state.px, extent)) ]

\* variant: a release creates momentum whether or not a drag is under way
Trackball_mouse_up_AlwaysMomentum(c) ==
    IF c.mouse_location.some
    THEN LET curr == normalize(project_trackball(c.mouse_location.curr))
             prev == normalize(project_trackball(c.mouse_location.prev))
         IN  [ c EXCEPT !.momentum_q = rotation_to(prev, curr),
                        !.momentum_magnitude = One,
                        !.base_q = QMul(c.curr_q, c.base_q),
                        !.curr_q = Identity,
                        !.mouse_location = NoDrag ]
    ELSE [ c EXCEPT !.momentum_magnitude = One ]

\* variant: the release leaves the camera in its drag
Trackball_mouse_up_KeepsDrag(c) ==
    IF c.mouse_location.some
    THEN LET curr == normalize(project_trackball(c.mouse_location.curr))
             prev == normalize(project_trackball(c.mouse_location.prev))
         IN  [ c EXCEPT !.momentum_q = rotation_to(prev, curr),
                        !.momentum_magnitude = One,
                        !.base_q = QMul(c.curr_q, c.base_q),
                        !.curr_q = Identity ]
    ELSE c

\* camera.rs:284-303, mouse up
Trackball_mouse_up(c) ==
    IF c.mouse_location.some
    THEN LET curr == normalize(project_trackball(c.mouse_location.curr))
             prev == normalize(project_trackball(c.mouse_location.prev))
         IN  [ c EXCEPT !.momentum_q = rotation_to(prev, curr),
                        !.momentum_magnitude = One,
                        !.base_q = QMul(c.curr_q, c.base_q),
                        !.curr_q = Identity,
                        !.mouse_location = NoDrag ]
    ELSE [ c EXCEPT !.mouse_location = NoDrag ]

\* camera.rs:249-306
Trackball_handle_event(c, extent, event) ==
    LET c1 == [ c EXCEPT !.user_input_state = handle_pointer_input(@, event) ]
    IN  CASE event.kind = "CursorMoved" -> Trackball_cursor_moved(c1, event)
          [] event.kind = "MouseInput" /\ event.pressed ->
                 Trackball_mouse_down(c1, extent)
          [] event.kind = "MouseInput" /\ ~event.pressed ->
                 Trackball_mouse_up(c1)
          [] OTHER -> c1

\* variant: the magnitude is decayed before it is used for the blend
Trackball_update_DecayFirst(c) ==
    IF ~c.mouse_location.some
    THEN LET decayed == FMul(c.momentum_magnitude, damping_factor)
             combined_q == slerp(Identity, c.momentum_q, decayed)
         IN  [ c EXCEPT !.momentum_magnitude = decayed,
                        !.base_q = QMul(combined_q, c.base_q) ]
    ELSE c

\* variant: the magnitude is not decayed
Trackball_update_NoDecay(c) ==
    IF ~c.mouse_location.some
    THEN LET combined_q == slerp(Identity, c.momentum_q, c.momentum_magnitude)
         IN  [ c EXCEPT !.base_q = QMul(combined_q, c.base_q) ]
    ELSE c

\* camera.rs:239-247; the blend starts from the identity rotation
Trackball_update(c) ==
    IF ~c.mouse_location.some
    THEN LET combined_q == slerp(Identity, c.momentum_q, c.momentum_magnitude)
         IN  [ c EXCEPT !.momentum_magnitude = FMul(@, damping_factor),
                        !.base_q = QMul(combined_q, c.base_q) ]
    ELSE c

(***************************************************************************)
(* Sensor cameras and their offscreen renderers                            *)
(***************************************************************************)
\* contents of a staging buffer no render has been copied into yet
Unwritten == [ frame |-> 0, buffers |-> <<>>, mvp |-> Isometry(ZeroVec, 0) ]

\* offscreen_rendering::Renderer::new
Renderer_new(extent) ==
    [ extent |-> extent,
      staging_buffer |-> Unwritten,
      previous_frame_end |-> "now" ]

\* offscreen_rendering::Renderer::render; flush_ok is the outcome of
\* then_signal_fence_and_flush
Renderer_render(r, vertex_buffers, push_data, frame, flush_ok) ==
    IF flush_ok
    THEN [ r EXCEPT
             !.staging_buffer =
                 [ frame |-> frame, buffers |-> vertex_buffers,
                   mvp |-> push_data ],
             !.previous_frame_end = "frame" ]
    ELSE [ r EXCEPT !.previous_frame_end = "now" ]

\* offscreen_rendering::Renderer::get_image_data
Renderer_get_image(r) == r.staging_buffer

\* the i-th sensor camera a caller requests: a camera at the origin and an
\* image extent of i by i pixels
EntityCreationCameraData(i) ==
    [ camera |-> Isometry(ZeroVec, 0), extent |-> i ]

\* the cameras vector of an EntityCreationData asking for n sensor cameras
RequestedCameras(n) == [ i \in 1..n |-> EntityCreationCameraData(i) ]

\* entity.rs:350-361, the closure that builds one PerCameraData
PerCameraData_new(requested) ==
    [ camera |-> requested.camera, renderer |-> Renderer_new(requested.extent) ]

(***************************************************************************)
(* GameWorld::step, phase by phase.  A phase maps a world record           *)
(*   [entities, dynamic_scene, static_scene, rigid_body_set,               *)
(*    per_window_state, panicked, log]                                     *)
(* to the world record after the phase; log collects the effects in the    *)
(* order the code performs them.                                           *)
(***************************************************************************)
Ev(ev, id, cam) == [ev |-> ev, id |-> id, cam |-> cam]

Logged(w, e) == [ w EXCEPT !.log = Append(@, e) ]

\* entity.rs:190-205
StepPhysics(w) ==
    Logged([ w EXCEPT !.rigid_body_set = physics_pipeline_step(@) ],
           Ev("physics", 0, 0))

\* variant: the sync rewrites the mesh of every entity, moved or not
SyncEntity_AlwaysRewrite(w, entity_id) ==
    LET entity == w.entities[entity_id]
        has_body == entity.rigid_body_handle # NoHandle
    IN  IF has_body /\ entity.rigid_body_handle \notin DOMAIN w.rigid_body_set
        THEN [ w EXCEPT !.panicked = TRUE ]
        ELSE
        LET new_isometry ==
                IF has_body
                THEN w.rigid_body_set[entity.rigid_body_handle].position
                ELSE entity.isometry
            object == transform(entity.mesh, new_isometry)
        IN  IF has_body
            THEN Logged(
                   [ w EXCEPT
                       !.entities[entity_id].isometry = new_isometry,
                       !.dynamic_scene =
                           Scene_add_object(@, entity_id, object) ],
                   Ev("add_object_dynamic", entity_id, 0))
            ELSE Logged(
                   [ w EXCEPT
                       !.entities[entity_id].isometry = new_isometry,
                       !.static_scene =
                           Scene_add_object(@, entity_id, object) ],
                   Ev("add_object_static", entity_id, 0))

\* variant: the new isometry is stored but the batch is not rewritten
SyncEntity_NoRewrite(w, entity_id) ==
    LET entity == w.entities[entity_id]
    IN  IF entity.rigid_body_handle # NoHandle
           /\ entity.rigid_body_handle \in DOMAIN w.rigid_body_set
        THEN [ w EXCEPT !.entities[entity_id].isometry =
                 w.rigid_body_set[entity.rigid_body_handle].position ]
        ELSE w

\* entity.rs:209-223, the body of the loop for one entity
SyncEntity(w, entity_id) ==
    LET entity == w.entities[entity_id]
        has_body == entity.rigid_body_handle # NoHandle
    IN  IF has_body /\ entity.rigid_body_handle \notin DOMAIN w.rigid_body_set
        THEN [ w EXCEPT !.panicked = TRUE ]
        ELSE
        LET new_isometry ==
                IF has_body
                THEN w.rigid_body_set[entity.rigid_body_handle].position
                ELSE entity.isometry
            object == transform(entity.mesh, new_isometry)
        IN  IF new_isometry # entity.isometry
            THEN IF has_body
                 THEN Logged(
                        [ w EXCEPT
                            !.entities[entity_id].isometry = new_isometry,
                            !.dynamic_scene =
                                Scene_add_object(@, entity_id, object) ],
                        Ev("add_object_dynamic", entity_id, 0))
                 ELSE Logged(
                        [ w EXCEPT
                            !.entities[entity_id].isometry = new_isometry,
                            !.static_scene =
                                Scene_add_object(@, entity_id, object) ],
                        Ev("add_object_static", entity_id, 0))
            ELSE w

RECURSIVE SyncEntities(_, _)
SyncEntities(w, order) ==
    IF order = <<>> \/ w.panicked THEN w
    ELSE IF Head(order) \in DOMAIN w.entities
         THEN SyncEntities(SyncEntity(w, Head(order)), Tail(order))
         ELSE SyncEntities(w, Tail(order))

\* entity.rs:207-224
StepSync(w, order) == SyncEntities(Logged(w, Ev("sync", 0, 0)), order)

\* entity.rs:226-252
StepImpulse(w, input) ==
    IF w.panicked \/ ~w.per_window_state.some THEN w
    ELSE
    LET id == w.per_window_state.entity_id
    IN  IF id \in DOMAIN w.entities
           /\ w.entities[id].rigid_body_handle # NoHandle
        THEN
          LET handle == w.entities[id].rigid_body_handle
              isometry == w.entities[id].isometry
              impulse == IF input.w THEN <<1, 0, 0>>
                         ELSE IF input.s THEN <<-1, 0, 0>>
                         ELSE ZeroVec
              torque_impulse == IF input.a THEN <<0, -1, 0>>
                                ELSE IF input.d THEN <<0, 1, 0>>
                                ELSE ZeroVec
          IN  IF handle \notin DOMAIN w.rigid_body_set
              THEN [ w EXCEPT !.panicked = TRUE ]
              ELSE Logged(
                     [ w EXCEPT !.rigid_body_set[handle] =
                         apply_torque_impulse(
                           apply_impulse(@, Rotate(impulse, isometry.rotation)),
                           torque_impulse) ],
                     Ev("impulse", id, handle))
        ELSE w

\* Scene::vertex_buffer() on a batch inside step()/render(), with its log
\* variant: every read of the dynamic batch rebuilds its buffer
ReadDynamic_AlwaysRebuilds(w, order) ==
    LET w1 == [ w EXCEPT !.dynamic_scene =
                  Scene_vertex_buffer([ @ EXCEPT
                      !.vertex_buffer_needs_update = TRUE ], order) ]
    IN  Logged(Logged(w1, Ev("rebuild_dynamic", 0, 0)),
               Ev("vertex_buffer_dynamic", 0, 0))

ReadDynamic(w, order) ==
    LET rebuilt == w.dynamic_scene.vertex_buffer_needs_update
        w1 == [ w EXCEPT !.dynamic_scene = Scene_vertex_buffer(@, order) ]
    IN  Logged(IF rebuilt THEN Logged(w1, Ev("rebuild_dynamic", 0, 0)) ELSE w1,
               Ev("vertex_buffer_dynamic", 0, 0))

ReadStatic(w, order) ==
    LET rebuilt == w.static_scene.vertex_buffer_needs_update
        w1 == [ w EXCEPT !.static_scene = Scene_vertex_buffer(@, order) ]
    IN  Logged(IF rebuilt THEN Logged(w1, Ev("rebuild_static", 0, 0)) ELSE w1,
               Ev("vertex_buffer_static", 0, 0))

\* [dynamic, static].into_iter().flatten(): the buffers that are Some
PresentBuffers(w) ==
    (IF w.dynamic_scene.vertex_buffer.some
     THEN << w.dynamic_scene.vertex_buffer.data >> ELSE <<>>)
    \o (IF w.static_scene.vertex_buffer.some
        THEN << w.static_scene.vertex_buffer.data >> ELSE <<>>)

\* entity.rs:256-277, the body of the inner loop for one sensor camera
RenderCamera(w, id, i, frame, dorder, sorder, flush_ok) ==
    LET isometry == w.entities[id].isometry
        camera == Isometry(isometry.translation, isometry.rotation)
        w1 == Logged([ w EXCEPT !.entities[id].cameras[i].camera = camera ],
                     Ev("camera_set_position", id, i))
        w2 == ReadStatic(ReadDynamic(w1, dorder), sorder)
    IN  Logged(
          [ w2 EXCEPT !.entities[id].cameras[i].renderer =
              Renderer_render(@, PresentBuffers(w2), camera, frame,
                              flush_ok[id][i]) ],
          Ev("render", id, i))

RECURSIVE RenderCameras(_, _, _, _, _, _, _)
RenderCameras(w, id, i, frame, dorder, sorder, flush_ok) ==
    IF i > Len(w.entities[id].cameras) THEN w
    ELSE RenderCameras(
           RenderCamera(w, id, i, frame, dorder, sorder, flush_ok),
           id, i + 1, frame, dorder, sorder, flush_ok)

RECURSIVE RenderEntities(_, _, _, _, _, _)
RenderEntities(w, order, frame, dorder, sorder, flush_ok) ==
    IF order = <<>> THEN w
    ELSE IF Head(order) \in DOMAIN w.entities
         THEN RenderEntities(
                RenderCameras(w, Head(order), 1, frame, dorder, sorder,
                              flush_ok),
                Tail(order), frame, dorder, sorder, flush_ok)
         ELSE RenderEntities(w, Tail(order), frame, dorder, sorder, flush_ok)

\* variant: the sensor cameras are rendered only when there is a window
StepRender_WindowOnly(w, order, frame, dorder, sorder, flush_ok) ==
    IF w.panicked \/ ~w.per_window_state.some THEN w
    ELSE RenderEntities(w, order, frame, dorder, sorder, flush_ok)

\* entity.rs:254-278
StepRender(w, order, frame, dorder, sorder, flush_ok) ==
    IF w.panicked THEN w
    ELSE RenderEntities(w, order, frame, dorder, sorder, flush_ok)

\* variant: the window camera is updated whether or not the tracked
\* entity is in the map
StepWindowCamera_Always(w) ==
    IF w.panicked \/ ~w.per_window_state.some THEN w
    ELSE Logged(
           [ w EXCEPT !.per_window_state.camera = Camera_update(@) ],
           Ev("window_camera_update", w.per_window_state.entity_id, 0))

\* entity.rs:280-292
StepWindowCamera(w) ==
    IF w.panicked \/ ~w.per_window_state.some THEN w
    ELSE IF w.per_window_state.entity_id \in DOMAIN w.entities
    THEN LET isometry == w.entities[w.per_window_state.entity_id].isometry
         IN  Logged(
               [ w EXCEPT !.per_window_state.camera =
                   Camera_update(
                     [ @ EXCEPT !.root_pos = isometry.translation,
                                !.rotation = isometry.rotation ]) ],
               Ev("window_camera_update", w.per_window_state.entity_id, 0))
    ELSE w

\* entity.rs:294-307: the returned map
StepObservations(w) ==
    [ entity_id \in DOMAIN w.entities |->
        [ i \in 1..Len(w.entities[entity_id].cameras) |->
            Renderer_get_image(w.entities[entity_id].cameras[i].renderer) ] ]

\* variant: the window camera is updated before the offscreen renders
StepWorld_CameraBeforeRender(w, input, frame, eorder, dorder, sorder, flush_ok) ==
    StepRender(
      StepWindowCamera(
        StepImpulse(StepSync(StepPhysics(w), eorder), input)),
      eorder, frame, dorder, sorder, flush_ok)

\* variant: the offscreen renders run before physics and the entity sync
StepWorld_RenderFirst(w, input, frame, eorder, dorder, sorder, flush_ok) ==
    StepWindowCamera(
      StepImpulse(
        StepSync(
          StepPhysics(
            StepRender(w, eorder, frame, dorder, sorder, flush_ok)),
          eorder),
        input))

\* variant: the key impulse is applied before the physics advance
StepWorld_ImpulseFirst(w, input, frame, eorder, dorder, sorder, flush_ok) ==
    StepWindowCamera(
      StepRender(
        StepSync(StepPhysics(StepImpulse(w, input)), eorder),
        eorder, frame, dorder, sorder, flush_ok))

\* entity.rs:189-308 up to the return expression
StepWorld(w, input, frame, eorder, dorder, sorder, flush_ok) ==
    StepWindowCamera(
      StepRender(
        StepImpulse(StepSync(StepPhysics(w), eorder), input),
        eorder, frame, dorder, sorder, flush_ok))

(***************************************************************************)
(* GameWorld::add_entity and GameWorld::remove_entity on a world record    *)
(***************************************************************************)
EmptyMap == [x \in {} |-> 0]

\* variant: add_entity hands out a handle without inserting the body
AddEntityBodies_NoInsert(bodies, handle, physics, isometry) == bodies

\* entity.rs:319-342: the body inserted for the entity, if any
AddEntityBodies(bodies, handle, physics, isometry) ==
    IF physics # "none"
    THEN MapInsert(bodies, handle, RigidBody(physics = "dynamic", isometry))
    ELSE bodies

\* variant: only is_dynamic = true selects the dynamic batch
AddEntityUsesDynamicScene_IsDynamic(physics) == physics = "dynamic"

\* entity.rs:319-342: which batch the match selects
AddEntityUsesDynamicScene(physics) == physics # "none"

\* variant: the mesh is written to the batch as given, not transformed
GameWorld_add_entity_RawMesh(w, handle, entity_id, ncameras, physics, mesh, isometry) ==
    LET cameras == RequestedCameras(ncameras)
        entity == [ cameras |-> [ i \in 1..Len(cameras) |->
                                    PerCameraData_new(cameras[i]) ],
                    rigid_body_handle |->
                        IF physics # "none" THEN handle ELSE NoHandle,
                    mesh |-> mesh,
                    isometry |-> isometry ]
    IN  [ Logged(w, Ev("add_entity", entity_id, entity.rigid_body_handle))
          EXCEPT
            !.rigid_body_set = AddEntityBodies(@, handle, physics, isometry),
            !.dynamic_scene =
                IF AddEntityUsesDynamicScene(physics)
                THEN Scene_add_object(@, entity_id, mesh) ELSE @,
            !.static_scene =
                IF AddEntityUsesDynamicScene(physics)
                THEN @ ELSE Scene_add_object(@, entity_id, mesh),
            !.entities = MapInsert(@, entity_id, entity) ]

\* entity.rs:310-373
GameWorld_add_entity(w, handle, entity_id, ncameras, physics, mesh, isometry) ==
    LET object == transform(mesh, isometry)
        cameras == RequestedCameras(ncameras)
        entity == [ cameras |-> [ i \in 1..Len(cameras) |->
                                    PerCameraData_new(cameras[i]) ],
                    rigid_body_handle |->
                        IF physics # "none" THEN handle ELSE NoHandle,
                    mesh |-> mesh,
                    isometry |-> isometry ]
    IN  [ Logged(w, Ev("add_entity", entity_id, entity.rigid_body_handle))
          EXCEPT
            !.rigid_body_set = AddEntityBodies(@, handle, physics, isometry),
            !.dynamic_scene =
                IF AddEntityUsesDynamicScene(physics)
                THEN Scene_add_object(@, entity_id, object) ELSE @,
            !.static_scene =
                IF AddEntityUsesDynamicScene(physics)
                THEN @ ELSE Scene_add_object(@, entity_id, object),
            !.entities = MapInsert(@, entity_id, entity) ]

\* variant: the geometry is removed only from the batch that owns the entity
GameWorld_remove_entity_OwnerOnly(w, entity_id) ==
    LET present == entity_id \in DOMAIN w.entities
        had_body == present
                    /\ w.entities[entity_id].rigid_body_handle # NoHandle
    IN  [ (IF present
           THEN Logged(w, Ev("removed", entity_id,
                             w.entities[entity_id].rigid_body_handle))
           ELSE w) EXCEPT
            !.entities = MapRemove(@, entity_id),
            !.rigid_body_set =
                IF had_body
                THEN MapRemove(@, w.entities[entity_id].rigid_body_handle)
                ELSE @,
            !.dynamic_scene =
                IF had_body THEN Scene_remove_object(@, entity_id) ELSE @,
            !.static_scene =
                IF present /\ ~had_body
                THEN Scene_remove_object(@, entity_id) ELSE @,
            !.log = @ \o (IF had_body
                          THEN << Ev("remove_object_dynamic", entity_id, 0) >>
                          ELSE IF present
                          THEN << Ev("remove_object_static", entity_id, 0) >>
                          ELSE << >>) ]

\* variant: both batches are marked dirty whether or not they held the id
GameWorld_remove_entity_DirtiesBatches(w, entity_id) ==
    LET had_body == entity_id \in DOMAIN w.entities
                    /\ w.entities[entity_id].rigid_body_handle # NoHandle
    IN  [ (IF entity_id \in DOMAIN w.entities
           THEN Logged(w, Ev("removed", entity_id,
                             w.entities[entity_id].rigid_body_handle))
           ELSE w) EXCEPT
            !.entities = MapRemove(@, entity_id),
            !.rigid_body_set =
                IF had_body
                THEN MapRemove(@, w.entities[entity_id].rigid_body_handle)
                ELSE @,
            !.dynamic_scene =
                [ Scene_remove_object(@, entity_id) EXCEPT
                    !.vertex_buffer_needs_update = TRUE ],
            !.static_scene =
                [ Scene_remove_object(@, entity_id) EXCEPT
                    !.vertex_buffer_needs_update = TRUE ],
            !.log = @ \o << Ev("remove_object_dynamic", entity_id, 0),
                            Ev("remove_object_static", entity_id, 0) >> ]

\* variant: the body of the removed entity stays in the body set
GameWorld_remove_entity_KeepsBody(w, entity_id) ==
    [ (IF entity_id \in DOMAIN w.entities
       THEN Logged(w, Ev("removed", entity_id,
                         w.entities[entity_id].rigid_body_handle))
       ELSE w) EXCEPT
        !.entities = MapRemove(@, entity_id),
        !.dynamic_scene = Scene_remove_object(@, entity_id),
        !.static_scene = Scene_remove_object(@, entity_id),
        !.log = @ \o << Ev("remove_object_dynamic", entity_id, 0),
                        Ev("remove_object_static", entity_id, 0) >> ]

\* entity.rs:393-413
GameWorld_remove_entity(w, entity_id) ==
    LET had_body == entity_id \in DOMAIN w.entities
                    /\ w.entities[entity_id].rigid_body_handle # NoHandle
    IN  [ (IF entity_id \in DOMAIN w.entities
           THEN Logged(w, Ev("removed", entity_id,
                             w.entities[entity_id].rigid_body_handle))
           ELSE w) EXCEPT
            !.entities = MapRemove(@, entity_id),
            !.rigid_body_set =
                IF had_body
                THEN MapRemove(@, w.entities[entity_id].rigid_body_handle)
                ELSE @,
            !.dynamic_scene = Scene_remove_object(@, entity_id),
            !.static_scene = Scene_remove_object(@, entity_id),
            !.log = @ \o << Ev("remove_object_dynamic", entity_id, 0),
                            Ev("remove_object_static", entity_id, 0) >> ]

\* variant: the draw is issued whether or not there is a window
GameWorld_render_NoWindowCheck(w, dorder, sorder) ==
    Logged(ReadStatic(ReadDynamic(w, dorder), sorder),
           Ev("window_render", 0, 0))

\* entity.rs:377-391
GameWorld_render(w, dorder, sorder) ==
    IF w.per_window_state.some
    THEN Logged(ReadStatic(ReadDynamic(w, dorder), sorder),
                Ev("window_render", 0, 0))
    ELSE w

(***************************************************************************)
(* KeyboardState (handle_user_input.rs) and PerspectiveCamera (camera.rs). *)
(* Angles are whole degrees.  dir_move and dir_rotate are called by        *)
(* apply_to_camera but are not among the sources; they are written from    *)
(* the camera description: pitch is clamped to -89..89 degrees, yaw is     *)
(* unbounded.  A position is counted in movement steps along the camera's  *)
(* front, right and up directions.                                         *)
(***************************************************************************)
KeyNames == { "w", "a", "s", "d", "q", "e", "up", "left", "down", "right" }

\* the virtual_keycode of a KeyboardInput: a key the struct tracks, some
\* other key, or None
VirtualKeyCodes == KeyNames \cup { "Other", "None" }
KeyboardInputs ==
    { [ virtual_keycode |-> kc, pressed |-> b ] :
        kc \in VirtualKeyCodes, b \in BOOLEAN }

\* handle_user_input.rs:19-32
KeyboardState_new == [ k \in KeyNames |-> FALSE ]

\* handle_user_input.rs:33-49
handle_keyboard_input(k, input) ==
    IF input.virtual_keycode \in KeyNames
    THEN [ k EXCEPT ![input.virtual_keycode] = input.pressed ]
    ELSE k

PitchLimit == 89
RotateStep == 45
InitialYaw == -90

\* camera.rs:64-79
PerspectiveCamera_new(pos) ==
    [ pos |-> pos, pitch |-> 0, yaw |-> InitialYaw ]

MovementOf(dir) ==
    CASE dir = "Forward"  -> <<1, 0, 0>>
      [] dir = "Backward" -> <<-1, 0, 0>>
      [] dir = "Right"    -> <<0, 1, 0>>
      [] dir = "Left"     -> <<0, -1, 0>>
      [] dir = "Upward"   -> <<0, 0, 1>>
      [] dir = "Downward" -> <<0, 0, -1>>

\* PerspectiveCamera::dir_move
dir_move(c, dir) == [ c EXCEPT !.pos = VAdd(@, MovementOf(dir)) ]

Clamp(x, lo, hi) == IF x < lo THEN lo ELSE IF x > hi THEN hi ELSE x

\* variant: the pitch is not clamped
dir_rotate_NoClamp(c, dir) ==
    CASE dir = "Upward"   -> [ c EXCEPT !.pitch = @ + RotateStep ]
      [] dir = "Downward" -> [ c EXCEPT !.pitch = @ - RotateStep ]
      [] dir = "Left"     -> [ c EXCEPT !.yaw = @ - RotateStep ]
      [] dir = "Right"    -> [ c EXCEPT !.yaw = @ + RotateStep ]

\* PerspectiveCamera::dir_rotate
dir_rotate(c, dir) ==
    CASE dir = "Upward" ->
            [ c EXCEPT !.pitch = Clamp(@ + RotateStep, -PitchLimit, PitchLimit) ]
      [] dir = "Downward" ->
            [ c EXCEPT !.pitch = Clamp(@ - RotateStep, -PitchLimit, PitchLimit) ]
      [] dir = "Left"     -> [ c EXCEPT !.yaw = @ - RotateStep ]
      [] dir = "Right"    -> [ c EXCEPT !.yaw = @ + RotateStep ]

\* handle_user_input.rs:51-82: the keys in the order they are tested, and
\* the camera call each one makes
KeyBindings ==
    << [ key |-> "w",     rotate |-> FALSE, dir |-> "Forward" ],
       [ key |-> "a",     rotate |-> FALSE, dir |-> "Left" ],
       [ key |-> "s",     rotate |-> FALSE, dir |-> "Backward" ],
       [ key |-> "d",     rotate |-> FALSE, dir |-> "Right" ],
       [ key |-> "q",     rotate |-> FALSE, dir |-> "Upward" ],
       [ key |-> "e",     rotate |-> FALSE, dir |-> "Downward" ],
       [ key |-> "up",    rotate |-> TRUE,  dir |-> "Upward" ],
       [ key |-> "down",  rotate |-> TRUE,  dir |-> "Downward" ],
       [ key |-> "left",  rotate |-> TRUE,  dir |-> "Left" ],
       [ key |-> "right", rotate |-> TRUE,  dir |-> "Right" ] >>

RECURSIVE ApplyBindingsFrom(_, _, _)
ApplyBindingsFrom(k, camera, i) ==
    IF i > Len(KeyBindings) THEN camera
    ELSE LET b == KeyBindings[i]
             c == IF ~k[b.key] THEN camera
                  ELSE IF b.rotate THEN dir_rotate(camera, b.dir)
                  ELSE dir_move(camera, b.dir)
         IN  ApplyBindingsFrom(k, c, i + 1)

\* handle_user_input.rs:51-82
apply_to_camera(k, camera) == ApplyBindingsFrom(k, camera, 1)

(***************************************************************************)
(* rendering3d::Renderer, the renderer of the window.  What the swapchain  *)
(* and the queue answer is an input of render(): whether recreate          *)
(* succeeds, what acquire_next_image returns and what the flush returns.   *)
(* effects lists what the last render() did, in order.                     *)
(***************************************************************************)
WindowExtents == { <<0, 2>>, <<2, 0>>, <<2, 2>>, <<4, 2>> }

AcquireResults == { "ok", "suboptimal", "out_of_date", "error" }
FlushResults == { "ok", "out_of_date", "error" }

\* the answers of the graphics API during one render()
RenderOutcomes ==
    [ recreate_ok : BOOLEAN, acquire : AcquireResults, flush : FlushResults ]

\* rendering3d.rs:355-374
Renderer3d_new(extent) ==
    [ swapchain |-> [ image_extent |-> extent, recreated |-> 0 ],
      previous_frame_end |-> "now",
      wdd_needs_rebuild |-> FALSE,
      presented |-> 0,
      panicked |-> FALSE,
      effects |-> <<>> ]

\* rendering3d.rs:376-395
Renderer3d_rebuild(r, extent, recreate_ok) ==
    IF recreate_ok
    THEN [ r EXCEPT !.swapchain = [ image_extent |-> extent,
                                    recreated |-> @.recreated + 1 ],
                    !.effects = Append(@, "rebuild") ]
    ELSE [ r EXCEPT !.panicked = TRUE, !.effects = Append(@, "rebuild") ]

\* variant: a flush error other than out-of-date stores no new future
Renderer3d_submit_NoFutureOnError(r, flush, frame) ==
    LET taken == [ r EXCEPT !.previous_frame_end = "none",
                            !.effects = Append(@, "submit") ]
    IN  CASE flush = "ok" ->
               [ taken EXCEPT !.previous_frame_end = "frame",
                              !.presented = frame,
                              !.effects = Append(@, "present") ]
          [] flush = "out_of_date" ->
               [ taken EXCEPT !.wdd_needs_rebuild = TRUE,
                              !.previous_frame_end = "now" ]
          [] flush = "error" -> taken

\* rendering3d.rs:493-525: the submission of the frame and its outcome
Renderer3d_submit(r, flush, frame) ==
    LET taken == [ r EXCEPT !.previous_frame_end = "none",
                            !.effects = Append(@, "submit") ]
    IN  CASE flush = "ok" ->
               [ taken EXCEPT !.previous_frame_end = "frame",
                              !.presented = frame,
                              !.effects = Append(@, "present") ]
          [] flush = "out_of_date" ->
               [ taken EXCEPT !.wdd_needs_rebuild = TRUE,
                              !.previous_frame_end = "now" ]
          [] flush = "error" ->
               [ taken EXCEPT !.previous_frame_end = "now" ]

\* variant: an out-of-date acquire returns without setting the flag
Renderer3d_acquire_NoFlag(r, outcome, frame) ==
    LET tried == [ r EXCEPT !.effects = Append(@, "acquire") ]
    IN  CASE outcome.acquire = "out_of_date" -> tried
          [] outcome.acquire = "error" -> [ tried EXCEPT !.panicked = TRUE ]
          [] outcome.acquire = "suboptimal" ->
               Renderer3d_submit([ tried EXCEPT !.wdd_needs_rebuild = TRUE ],
                                 outcome.flush, frame)
          [] outcome.acquire = "ok" ->
               Renderer3d_submit(tried, outcome.flush, frame)

\* rendering3d.rs:426-441 and what follows the acquire
Renderer3d_acquire(r, outcome, frame) ==
    LET tried == [ r EXCEPT !.effects = Append(@, "acquire") ]
    IN  CASE outcome.acquire = "out_of_date" ->
               [ tried EXCEPT !.wdd_needs_rebuild = TRUE ]
          [] outcome.acquire = "error" -> [ tried EXCEPT !.panicked = TRUE ]
          [] outcome.acquire = "suboptimal" ->
               Renderer3d_submit([ tried EXCEPT !.wdd_needs_rebuild = TRUE ],
                                 outcome.flush, frame)
          [] outcome.acquire = "ok" ->
               Renderer3d_submit(tried, outcome.flush, frame)

\* variant: a render() on a zero-sized window drops the rebuild flag
Renderer3d_render_ClearsOnZero(r, extent, outcome, frame) ==
    LET begun == [ r EXCEPT !.effects = <<>> ]
    IN  IF extent[1] = 0 \/ extent[2] = 0
        THEN [ begun EXCEPT !.wdd_needs_rebuild = FALSE ]
        ELSE IF r.previous_frame_end = "none"
        THEN [ begun EXCEPT !.panicked = TRUE ]
        ELSE LET rebuilt ==
                   IF r.wdd_needs_rebuild
                   THEN [ Renderer3d_rebuild(begun, extent,
                                             outcome.recreate_ok)
                            EXCEPT !.wdd_needs_rebuild =
                                       IF outcome.recreate_ok THEN FALSE
                                       ELSE @ ]
                   ELSE begun
             IN  IF rebuilt.panicked THEN rebuilt
                 ELSE Renderer3d_acquire(rebuilt, outcome, frame)

\* rendering3d.rs:397-526; extent is the window's inner size
Renderer3d_render(r, extent, outcome, frame) ==
    LET begun == [ r EXCEPT !.effects = <<>> ]
    IN  IF extent[1] = 0 \/ extent[2] = 0 THEN begun
        ELSE IF r.previous_frame_end = "none"
        THEN [ begun EXCEPT !.panicked = TRUE ]
        ELSE LET rebuilt ==
                   IF r.wdd_needs_rebuild
                   THEN [ Renderer3d_rebuild(begun, extent,
                                             outcome.recreate_ok)
                            EXCEPT !.wdd_needs_rebuild =
                                       IF outcome.recreate_ok THEN FALSE
                                       ELSE @ ]
                   ELSE begun
             IN  IF rebuilt.panicked THEN rebuilt
                 ELSE Renderer3d_acquire(rebuilt, outcome, frame)

(***************************************************************************)
(* The GameWorld state machine                                             *)
(***************************************************************************)
World ==
    [ entities |-> entities,
      dynamic_scene |-> dynamic_scene,
      static_scene |-> static_scene,
      rigid_body_set |-> rigid_body_set,
      per_window_state |-> per_window_state,
      panicked |-> panicked,
      log |-> <<>> ]


SetWorld(w) ==
    /\ entities' = w.entities
    /\ dynamic_scene' = w.dynamic_scene
    /\ static_scene' = w.static_scene
    /\ rigid_body_set' = w.rigid_body_set
    /\ per_window_state' = w.per_window_state
    /\ panicked' = w.panicked
    /\ call_log' = w.log

\* history of the drags: no release yet / no press yet
NoRelease == -1
NoPress == [ some |-> FALSE, base_q |-> << >>, at |-> << >>, moves |-> 0 ]

CameraIdle ==
    /\ trackball = Trackball_new(ZeroVec)
    /\ camera_op = [ kind |-> "new", pressed |-> FALSE, dragging |-> FALSE,
                     extent |-> <<0, 0>>, moves |-> 0, pointer |-> <<0, 0>>,
                     since_release |-> NoRelease,
                     press |-> NoPress, clean |-> NoPress ]
    /\ pointer_events = 0

KeyboardIdle ==
    /\ keyboard_state = KeyboardState_new
    /\ perspective = PerspectiveCamera_new(ZeroVec)
    /\ keyboard_op = [ kind |-> "new", applies |-> 0 ]
    /\ key_calls = 0

NoOutcome == [ recreate_ok |-> TRUE, acquire |-> "ok", flush |-> "ok" ]

RendererIdle ==
    /\ renderer3d = Renderer3d_new(<<2, 2>>)
    /\ offscreen = Renderer_new(1)
    /\ renderer_op = [ kind |-> "new", extent |-> <<2, 2>>,
                       outcome |-> NoOutcome, stale |-> FALSE,
                       was_stale |-> FALSE, resumed |-> FALSE,
                       submitted |-> 0, image |-> Unwritten ]
    /\ frames = 0

SceneIdle ==
    /\ scene = Scene_new(EmptyMap, [i \in 1..MaxKey |-> i])
    /\ returned = NoBuffer
    /\ scene_op = [op |-> "new", key |-> 0, n |-> 0]
    /\ since_read = 0

\* GameWorld::new (entity.rs:121-187)
WorldNew(window) ==
    /\ entities = EmptyMap
    /\ dynamic_scene = Scene_new(EmptyMap, [i \in 1..MaxKey |-> i])
    /\ static_scene = Scene_new(EmptyMap, [i \in 1..MaxKey |-> i])
    /\ rigid_body_set = EmptyMap
    /\ per_window_state = window
    /\ user_input_state = UserInputState_new
    /\ panicked = FALSE
    /\ next_handle = 1
    /\ created = EmptyMap
    /\ call_log = <<>>
    /\ observations = EmptyMap
    /\ steps = 0
    /\ events = 0
    /\ calls = 0

Init ==
    /\ SceneIdle
    /\ CameraIdle
    /\ KeyboardIdle
    /\ RendererIdle
    /\ \E window \in {NoWindow}
             \cup { PerWindowState(t, c) : t \in TrackedIds,
                                           c \in InteractiveCameras } :
          WorldNew(window)

AddEntity(entity_id, data) ==
    /\ ~panicked
    /\ calls < MaxCalls
    /\ calls' = calls + 1
    /\ UNCHANGED events
    /\ SetWorld(GameWorld_add_entity(World,
                                     next_handle, entity_id,
                                     data.cameras, data.physics, data.mesh,
                                     data.isometry))
    /\ next_handle' = IF data.physics # "none" THEN next_handle + 1
                      ELSE next_handle
    /\ created' = MapInsert(created, entity_id,
                            [ physics |-> data.physics,
                              isometry |-> data.isometry ])
    /\ observations' = EmptyMap
    /\ UNCHANGED <<user_input_state, steps, scene_vars, camera_vars,
                   keyboard_vars, renderer_vars>>

RemoveEntity(entity_id) ==
    /\ ~panicked
    /\ calls < MaxCalls
    /\ calls' = calls + 1
    /\ UNCHANGED events
    /\ SetWorld(GameWorld_remove_entity(World, entity_id))
    /\ created' = MapRemove(created, entity_id)
    /\ observations' = EmptyMap
    /\ UNCHANGED <<user_input_state, next_handle, steps, scene_vars, camera_vars,
                   keyboard_vars, renderer_vars>>

\* outcome of the flush of each sensor camera's render in one step();
\* slots without a camera are fixed to TRUE
FlushOutcomes ==
    { f \in [Keys -> [1..MaxCameras -> BOOLEAN]] :
        \A k \in Keys, i \in 1..MaxCameras :
            (k \notin DOMAIN entities \/ i > Len(entities[k].cameras))
                => f[k][i] }

Step ==
    /\ ~panicked
    /\ calls < MaxCalls
    /\ calls' = calls + 1
    /\ UNCHANGED events
    /\ steps < MaxSteps
    /\ \E eorder \in OrdersOf(entities),
          dorder \in OrdersOf(dynamic_scene.objects),
          sorder \in OrdersOf(static_scene.objects),
          flush_ok \in FlushOutcomes :
          LET w == StepWorld(World, user_input_state, steps + 1,
                             eorder, dorder, sorder, flush_ok)
          IN  /\ SetWorld(w)
              /\ observations' = IF w.panicked THEN observations
                                 ELSE StepObservations(w)
    /\ steps' = steps + 1
    /\ UNCHANGED <<user_input_state, next_handle, created, scene_vars, camera_vars,
                   keyboard_vars, renderer_vars>>

Render ==
    /\ ~panicked
    /\ calls < MaxCalls
    /\ calls' = calls + 1
    /\ UNCHANGED events
    /\ \E dorder \in OrdersOf(dynamic_scene.objects),
          sorder \in OrdersOf(static_scene.objects) :
          SetWorld(GameWorld_render(World, dorder, sorder))
    /\ observations' = EmptyMap
    /\ UNCHANGED <<user_input_state, next_handle, created, steps,
                   scene_vars, camera_vars,
                   keyboard_vars, renderer_vars>>

\* entity.rs:415-426
HandleWindowEvent(input) ==
    /\ ~panicked
    /\ calls < MaxCalls
    /\ events < MaxEvents
    /\ events' = events + 1
    /\ calls' = calls + 1
    /\ user_input_state' = handle_input(user_input_state, input)
    /\ per_window_state' =
          IF per_window_state.some
          THEN [ per_window_state EXCEPT
                   !.camera = Camera_handle_event(@, input) ]
          ELSE per_window_state
    /\ call_log' = <<>>
    /\ observations' = EmptyMap
    /\ UNCHANGED <<entities, dynamic_scene, static_scene, rigid_body_set,
                   panicked, next_handle, created, steps, scene_vars, camera_vars,
                   keyboard_vars, renderer_vars>>

Next ==
    \/ \E entity_id \in Keys, data \in EntityCreationDatas :
          AddEntity(entity_id, data)
    \/ \E entity_id \in Keys : RemoveEntity(entity_id)
    \/ Step
    \/ Render
    \/ \E input \in WindowEvents : HandleWindowEvent(input)

Spec == Init /\ [][Next]_vars

(***************************************************************************)
(* The stand-alone Scene state machine                                     *)
(***************************************************************************)
InitScene ==
    /\ \E objects \in ObjectMaps, order \in Orders :
          scene = Scene_new(objects, order)
    /\ returned = NoBuffer
    /\ scene_op = [op |-> "new", key |-> 0, n |-> 0]
    /\ since_read = 0
    /\ WorldNew(NoWindow)
    /\ CameraIdle
    /\ KeyboardIdle
    /\ RendererIdle

SceneAddObject(key, object) ==
    /\ since_read < MaxMutations
    /\ scene' = Scene_add_object(scene, key, object)
    /\ scene_op' = [op |-> "add_object", key |-> key, n |-> since_read]
    /\ since_read' = since_read + 1
    /\ UNCHANGED <<returned, world_vars, camera_vars,
                   keyboard_vars, renderer_vars>>

SceneRemoveObject(key) ==
    /\ since_read < MaxMutations
    /\ scene' = Scene_remove_object(scene, key)
    /\ scene_op' = [op |-> "remove_object", key |-> key, n |-> since_read]
    /\ since_read' = since_read + 1
    /\ UNCHANGED <<returned, world_vars, camera_vars,
                   keyboard_vars, renderer_vars>>

SceneVertexBuffer ==
    /\ \E order \in Orders : scene' = Scene_vertex_buffer(scene, order)
    /\ returned' = scene'.vertex_buffer
    /\ scene_op' = [op |-> "vertex_buffer", key |-> 0, n |-> since_read]
    /\ since_read' = 0
    /\ UNCHANGED <<world_vars, camera_vars,
                   keyboard_vars, renderer_vars>>

NextScene ==
    \/ \E key \in Keys, object \in VertexLists : SceneAddObject(key, object)
    \/ \E key \in Keys : SceneRemoveObject(key)
    \/ SceneVertexBuffer

SpecScene == InitScene /\ [][NextScene]_vars

(***************************************************************************)
(* The stand-alone TrackballCamera state machine                           *)
(***************************************************************************)
\* where a pointer at pixel position p is in a viewport of the given extent:
\* its offset from the centre, in half pixels, over min(width, height)
PointerAt(p, extent) ==
    LET m == IF extent[1] < extent[2] THEN extent[1] ELSE extent[2]
    IN  << Frac(2 * p[1] - extent[1], 2 * m),
           Frac(2 * p[2] - extent[2], 2 * m) >>

InitCamera ==
    /\ CameraIdle
    /\ SceneIdle
    /\ WorldNew(NoWindow)
    /\ KeyboardIdle
    /\ RendererIdle

\* InteractiveCamera::handle_event; camera_op keeps the event, whether the
\* camera was in a drag before it, the number of CursorMoved events so far
\* (at most 2 are counted), the position of the pointer after the event,
\* the number of update() calls since a release that ended a drag with no
\* input in between (since_release), the base orientation and the
\* normalized pointer position at the last press (press), and the base
\* orientation before a drag that was released where it was pressed, with
\* no input since (clean)
CameraHandleEvent(extent, event) ==
    /\ pointer_events < MaxPointerEvents
    /\ pointer_events' = pointer_events + 1
    /\ trackball' = Trackball_handle_event(trackball, extent, event)
    /\ camera_op' =
          [ kind |-> event.kind,
            pressed |-> event.pressed,
            dragging |-> trackball.mouse_location.some,
            extent |-> extent,
            moves |-> IF event.kind = "CursorMoved" /\ camera_op.moves < 2
                      THEN camera_op.moves + 1 ELSE camera_op.moves,
            pointer |-> IF event.kind = "CursorMoved" THEN event.position
                        ELSE camera_op.pointer,
            since_release |->
                IF event.kind = "MouseInput" /\ ~event.pressed
                   /\ trackball.mouse_location.some
                THEN 0 ELSE NoRelease,
            press |->
                IF event.kind = "MouseInput" /\ event.pressed
                THEN [ some |-> TRUE,
                       base_q |-> trackball.base_q,
                       at |-> PointerAt(camera_op.pointer, extent),
                       moves |-> camera_op.moves ]
                ELSE IF event.kind = "MouseInput" THEN NoPress
                ELSE camera_op.press,
            clean |->
                IF event.kind = "MouseInput" /\ ~event.pressed
                   /\ trackball.mouse_location.some
                   /\ camera_op.press.some
                   /\ camera_op.press.at =
                         PointerAt(camera_op.pointer, extent)
                THEN camera_op.press
                ELSE NoPress ]
    /\ UNCHANGED <<scene_vars, world_vars, keyboard_vars, renderer_vars>>

\* InteractiveCamera::update
CameraUpdate ==
    /\ pointer_events < MaxPointerEvents
    /\ pointer_events' = pointer_events + 1
    /\ trackball' = Trackball_update(trackball)
    /\ camera_op' = [ camera_op EXCEPT
                        !.kind = "update",
                        !.pressed = FALSE,
                        !.dragging = trackball.mouse_location.some,
                        !.since_release =
                            IF @ = NoRelease THEN NoRelease ELSE @ + 1 ]
    /\ UNCHANGED <<scene_vars, world_vars, keyboard_vars, renderer_vars>>

NextCamera ==
    \/ \E extent \in Extents, event \in TrackballEvents :
          CameraHandleEvent(extent, event)
    \/ CameraUpdate

SpecCamera == InitCamera /\ [][NextCamera]_vars

(***************************************************************************)
(* The stand-alone keyboard and PerspectiveCamera state machine            *)
(* (main.rs:172-200: key events update the KeyboardState, and each frame   *)
(* applies it to the camera)                                               *)
(***************************************************************************)
InitKeyboard ==
    /\ KeyboardIdle
    /\ SceneIdle
    /\ CameraIdle
    /\ RendererIdle
    /\ WorldNew(NoWindow)

KeyboardHandleInput(input) ==
    /\ key_calls < MaxKeyCalls
    /\ key_calls' = key_calls + 1
    /\ keyboard_state' = handle_keyboard_input(keyboard_state, input)
    /\ keyboard_op' = [ kind |-> "key", applies |-> 0 ]
    /\ UNCHANGED <<perspective, scene_vars, world_vars, camera_vars,
                   renderer_vars>>

\* applies counts the apply_to_camera calls made since the last key event
KeyboardApplyToCamera ==
    /\ key_calls < MaxKeyCalls
    /\ key_calls' = key_calls + 1
    /\ perspective' = apply_to_camera(keyboard_state, perspective)
    /\ keyboard_op' = [ kind |-> "apply",
                        applies |-> keyboard_op.applies + 1 ]
    /\ UNCHANGED <<keyboard_state, scene_vars, world_vars, camera_vars,
                   renderer_vars>>

NextKeyboard ==
    \/ \E input \in KeyboardInputs : KeyboardHandleInput(input)
    \/ KeyboardApplyToCamera

SpecKeyboard == InitKeyboard /\ [][NextKeyboard]_vars

(***************************************************************************)
(* The stand-alone renderer state machine: the window's renderer and one   *)
(* offscreen renderer, each called with every answer the graphics API can  *)
(* give.  A panic ends the process: nothing is called after it.            *)
(***************************************************************************)
InitRenderer ==
    /\ RendererIdle
    /\ KeyboardIdle
    /\ SceneIdle
    /\ CameraIdle
    /\ WorldNew(NoWindow)

\* a window extent with no zero side
NonZero(extent) == extent[1] # 0 /\ extent[2] # 0

\* the effects of the last render() of the window's renderer
Effects(r) == { r.effects[i] : i \in DOMAIN r.effects }

\* stale: an out-of-date answer was given and no render() with a non-zero
\* extent has been called since; was_stale: stale before this call;
\* resumed: the call before this one was a render() on a zero-sized window
\* with the rebuild flag set;
\* submitted: the frame of the last render() of the offscreen renderer
RendererRender(extent, outcome) ==
    /\ ~renderer3d.panicked
    /\ frames < MaxFrames
    /\ frames' = frames + 1
    /\ renderer3d' = Renderer3d_render(renderer3d, extent, outcome, frames + 1)
    /\ renderer_op' =
          [ kind |-> "render", extent |-> extent, outcome |-> outcome,
            stale |-> IF extent[1] = 0 \/ extent[2] = 0
                      THEN renderer_op.stale
                      ELSE \/ /\ "acquire" \in Effects(renderer3d')
                              /\ outcome.acquire = "out_of_date"
                           \/ /\ "submit" \in Effects(renderer3d')
                              /\ outcome.flush = "out_of_date",
            was_stale |-> renderer_op.stale,
            resumed |-> /\ renderer_op.kind = "render"
                        /\ ~NonZero(renderer_op.extent)
                        /\ renderer3d.wdd_needs_rebuild,
            submitted |-> renderer_op.submitted,
            image |-> Unwritten ]
    /\ UNCHANGED <<offscreen, scene_vars, world_vars, camera_vars,
                   keyboard_vars>>

OffscreenRender(flush_ok) ==
    /\ ~renderer3d.panicked
    /\ frames < MaxFrames
    /\ frames' = frames + 1
    /\ offscreen' = Renderer_render(offscreen, <<>>, Isometry(ZeroVec, 0),
                                    frames + 1, flush_ok)
    /\ renderer_op' =
          [ renderer_op EXCEPT
              !.kind = "offscreen_render",
              !.outcome = [ NoOutcome EXCEPT
                              !.flush = IF flush_ok THEN "ok" ELSE "error" ],
              !.submitted = frames + 1,
              !.image = Unwritten ]
    /\ UNCHANGED <<renderer3d, scene_vars, world_vars, camera_vars,
                   keyboard_vars>>

OffscreenGetImage ==
    /\ ~renderer3d.panicked
    /\ frames < MaxFrames
    /\ frames' = frames + 1
    /\ renderer_op' =
          [ renderer_op EXCEPT
              !.kind = "get_image",
              !.outcome = NoOutcome,
              !.image = Renderer_get_image(offscreen) ]
    /\ UNCHANGED <<renderer3d, offscreen, scene_vars, world_vars,
                   camera_vars, keyboard_vars>>

NextRenderer ==
    \/ \E extent \in WindowExtents, outcome \in RenderOutcomes :
          RendererRender(extent, outcome)
    \/ \E flush_ok \in BOOLEAN : OffscreenRender(flush_ok)
    \/ OffscreenGetImage

SpecRenderer == InitRenderer /\ [][NextRenderer]_vars

(***************************************************************************)
(* Properties                                                              *)
(***************************************************************************)
\* the buffers that are a concatenation of the vertex lists of the keys of
\* objects, every list contiguous, in some order of the keys; an empty
\* concatenation is the absent buffer
Flattenings(objects) ==
    { IF flat_map(objects, o) = <<>> THEN NoBuffer
      ELSE SomeBuffer(flat_map(objects, o)) : o \in Orders }

LogIndices == 1..Len(call_log)
LogHas(ev) == \E i \in LogIndices : call_log[i].ev = ev
\* the last call was a step() that returned
IsStepReturn == LogHas("physics") /\ ~panicked
LogCount(ev) == Cardinality({ i \in LogIndices : call_log[i].ev = ev })
LogFirst(ev) == CHOOSE i \in LogIndices : call_log[i].ev = ev
RenderingEvents ==
    { "camera_set_position", "rebuild_dynamic", "rebuild_static",
      "vertex_buffer_dynamic", "vertex_buffer_static", "render",
      "window_camera_update" }
SyncWrites == { "add_object_dynamic", "add_object_static" }

\* C1: after any add_object/remove_object calls, one vertex_buffer() read
\* returns a flattening of the final object map, however many mutations
\* happened since the read before
C1_ReadReturnsFinalMap ==
    scene_op.op = "vertex_buffer" => returned \in Flattenings(scene.objects)

C1_Witness ==
    /\ scene_op.op = "vertex_buffer"
    /\ scene_op.n >= 2
    /\ returned.some
    /\ Cardinality(DOMAIN scene.objects) = 2

\* C2: whenever the dirty flag is clear, the cached buffer is a flattening
\* of the current object map
C2_CleanCacheIsCurrent ==
    ~scene.vertex_buffer_needs_update
        => scene.vertex_buffer \in Flattenings(scene.objects)

C2_Witness ==
    /\ ~scene.vertex_buffer_needs_update
    /\ scene_op.op = "remove_object"
    /\ scene.vertex_buffer.some
    /\ scene.objects # EmptyMap

\* C3: a step() advances physics once and runs the entity sync once, in
\* that order, and every write of the sync precedes every camera update,
\* vertex_buffer() read and render of the call
C3_PhysicsAndSyncOnceBeforeRendering ==
    IsStepReturn =>
        /\ LogCount("physics") = 1
        /\ LogCount("sync") = 1
        /\ LogFirst("physics") < LogFirst("sync")
        /\ \A i, j \in LogIndices :
              (call_log[i].ev \in SyncWrites \cup {"physics", "sync"}
               /\ call_log[j].ev \in RenderingEvents) => i < j

C3_Witness ==
    /\ IsStepReturn
    /\ LogHas("add_object_dynamic")
    /\ LogHas("render")
    /\ LogHas("rebuild_dynamic")
    /\ LogHas("window_camera_update")

\* C4 (as claimed): every entity's id is a key of exactly one of the two
\* scene batches
C4_ExactlyOneBatch ==
    \A id \in DOMAIN entities :
        (id \in DOMAIN dynamic_scene.objects)
            # (id \in DOMAIN static_scene.objects)

C6_RemoveEntityClears ==
    [][ \A id \in DOMAIN entities :
          id \notin DOMAIN entities' =>
            /\ id \notin DOMAIN dynamic_scene'.objects
            /\ id \notin DOMAIN static_scene'.objects
            /\ \A o \in Orders :
                 /\ Scene_vertex_buffer(dynamic_scene', o).vertex_buffer
                      \in Flattenings(MapRemove(dynamic_scene.objects, id))
                 /\ Scene_vertex_buffer(static_scene', o).vertex_buffer
                      \in Flattenings(MapRemove(static_scene.objects, id))
            /\ entities[id].rigid_body_handle # NoHandle =>
                 entities[id].rigid_body_handle \notin DOMAIN rigid_body_set'
      ]_vars

C6_Witness ==
    /\ \E i \in LogIndices :
          call_log[i].ev = "removed" /\ call_log[i].cam # NoHandle
    /\ steps >= 1
    /\ entities # EmptyMap
    /\ dynamic_scene.vertex_buffer.some

StepTaken == steps' = steps + 1 /\ ~panicked'
Tracked == per_window_state.entity_id
TrackedPresent == per_window_state.some /\ Tracked \in DOMAIN entities

\* C7: after every call, each entity's isometry is its body's position if
\* it has a body and its creation isometry otherwise, and the list under
\* its id in its owning batch is transform(mesh, isometry); a step() that
\* changes an entity's isometry rewrites that list and dirties the batch
\* (the flag is set, or a read later in the same step() consumed it)
C7_GeometryFollowsIsometry ==
    [][ /\ \A id \in DOMAIN entities' :
             LET entity == entities'[id]
                 handle == entity.rigid_body_handle
                 batch == IF handle # NoHandle THEN dynamic_scene'
                          ELSE static_scene'
             IN  /\ handle # NoHandle =>
                       /\ handle \in DOMAIN rigid_body_set'
                       /\ entity.isometry = rigid_body_set'[handle].position
                 /\ handle = NoHandle =>
                       entity.isometry = created'[id].isometry
                 /\ id \in DOMAIN batch.objects
                 /\ batch.objects[id] = transform(entity.mesh, entity.isometry)
        /\ StepTaken =>
             \A id \in DOMAIN entities :
                entities'[id].isometry # entities[id].isometry =>
                  \E i \in 1..Len(call_log') :
                     /\ call_log'[i] = Ev("add_object_dynamic", id, 0)
                     /\ \/ dynamic_scene'.vertex_buffer_needs_update
                        \/ \E j \in (i + 1)..Len(call_log') :
                              call_log'[j].ev = "rebuild_dynamic"
      ]_vars

C7_Witness ==
    /\ IsStepReturn
    /\ steps = 2
    /\ \E i \in LogIndices : call_log[i].ev = "add_object_dynamic"
    /\ dynamic_scene.vertex_buffer_needs_update
    /\ \E id \in DOMAIN entities :
          /\ entities[id].rigid_body_handle # NoHandle
          /\ entities[id].isometry # created[id].isometry
    /\ \E id \in DOMAIN entities : entities[id].rigid_body_handle = NoHandle

\* C8: a step() with a window whose tracked id is not in the entity map
\* returns normally, leaves every body exactly as the physics advance left
\* it (no impulse) and leaves the window camera untouched; with the tracked
\* id in the map the step() syncs the camera to the entity and updates it
C8_MissingTrackedEntityIsNoOp ==
    [][ (steps' = steps + 1 /\ per_window_state.some) =>
          IF Tracked \notin DOMAIN entities
          THEN /\ ~panicked'
               /\ rigid_body_set' = physics_pipeline_step(rigid_body_set)
               /\ per_window_state' = per_window_state
               /\ \A i \in 1..Len(call_log') :
                     call_log'[i].ev \notin {"impulse", "window_camera_update"}
          ELSE /\ ~panicked'
               /\ per_window_state'.camera =
                     Camera_update(
                       [ per_window_state.camera EXCEPT
                           !.root_pos = entities'[Tracked].isometry.translation,
                           !.rotation = entities'[Tracked].isometry.rotation ])
      ]_vars

C8_Witness ==
    /\ IsStepReturn
    /\ per_window_state.some
    /\ Tracked \notin DOMAIN entities
    /\ per_window_state.camera.momentum_magnitude = 0
    /\ user_input_state.w
    /\ \E h \in DOMAIN rigid_body_set :
          rigid_body_set[h].body_type = "dynamic"

\* the tracked id is added after a step() that skipped the camera, and the
\* following step() has updated it
C8_ResumeWitness ==
    /\ IsStepReturn
    /\ steps = 2
    /\ TrackedPresent
    /\ per_window_state.camera.momentum_magnitude = 1
    /\ per_window_state.camera.root_pos # ZeroVec

\* C9 (as claimed): the map returned by step() has the ids of the entities
\* as keys, one pixel buffer per sensor camera, and each buffer is the
\* output of the render issued for that camera in this step()
C9_ObservationsAreThisStepsRenders ==
    IsStepReturn =>
        /\ DOMAIN observations = DOMAIN entities
        /\ \A id \in DOMAIN entities :
              /\ Len(observations[id]) = Len(entities[id].cameras)
              /\ \A i \in 1..Len(entities[id].cameras) :
                    /\ observations[id][i].frame = steps
                    /\ observations[id][i].mvp = entities[id].cameras[i].camera
                    /\ observations[id][i].buffers = PresentBuffers(World)

\* C10: a window event changes no entity and no body; a step() leaves every
\* entity at the isometry the physics advance alone gives it, moves no body
\* beyond that advance, changes the velocity of no body but the tracked
\* entity's, and applies the impulse after the physics advance and after
\* every write of the entity sync
C10_KeysActThroughImpulseOnly ==
    [][ /\ events' = events + 1 =>
             entities' = entities /\ rigid_body_set' = rigid_body_set
        /\ StepTaken =>
             LET advanced == physics_pipeline_step(rigid_body_set)
                 log == call_log'
             IN  /\ \A id \in DOMAIN entities :
                       entities'[id].isometry =
                         IF entities[id].rigid_body_handle # NoHandle
                         THEN advanced[entities[id].rigid_body_handle].position
                         ELSE entities[id].isometry
                 /\ \A h \in DOMAIN rigid_body_set :
                       /\ rigid_body_set'[h].position = advanced[h].position
                       /\ (~TrackedPresent
                           \/ h # entities[Tracked].rigid_body_handle)
                             => rigid_body_set'[h] = advanced[h]
                 /\ \A i, j \in 1..Len(log) :
                       (log[i].ev \in SyncWrites \cup {"physics", "sync"}
                        /\ log[j].ev = "impulse") => i < j
                 /\ (TrackedPresent
                     /\ entities[Tracked].rigid_body_handle # NoHandle)
                       => \E j \in 1..Len(log) :
                             log[j] = Ev("impulse", Tracked,
                                         entities[Tracked].rigid_body_handle)
      ]_vars

\* the tracked entity has moved along x: the impulse of the first step()
\* shows in its isometry after the second
C10_Witness ==
    /\ IsStepReturn
    /\ steps = 2
    /\ user_input_state.w
    /\ TrackedPresent
    /\ entities[Tracked].isometry.translation[1] > 0

\* C11: render() hands exactly one draw to the window renderer when there is
\* a per-window camera and changes nothing at all when there is none; either
\* way it advances no physics and leaves the entity map, every isometry
\* and the object map of both batches as they were
C11_RenderDrawsOnceAndKeepsWorld ==
    [][ Render =>
          /\ per_window_state.some =>
                Cardinality({ i \in 1..Len(call_log') :
                                call_log'[i].ev = "window_render" }) = 1
          /\ ~per_window_state.some =>
                /\ call_log' = <<>>
                /\ UNCHANGED <<entities, dynamic_scene, static_scene,
                               rigid_body_set, per_window_state,
                               user_input_state, panicked>>
          /\ \A i \in 1..Len(call_log') : call_log'[i].ev # "physics"
          /\ rigid_body_set' = rigid_body_set
          /\ entities' = entities
          /\ dynamic_scene'.objects = dynamic_scene.objects
          /\ static_scene'.objects = static_scene.objects
      ]_vars

C11_Witness ==
    /\ LogHas("window_render")
    /\ LogHas("rebuild_dynamic")
    /\ static_scene.objects # EmptyMap
    /\ rigid_body_set # EmptyMap

\* C12: after add_entity(id, data) the entity stored under id has the given
\* mesh and isometry and one unused offscreen renderer per requested sensor
\* camera, in the order requested; a body (with its collider) was inserted
\* exactly when data.physics is present; and the batch add_entity selects
\* holds transform(mesh, isometry) under id and is dirty
C12_AddEntityPostcondition ==
    [][ \A id \in Keys, data \in EntityCreationDatas :
          AddEntity(id, data) =>
            LET e == entities'[id]
                requested == RequestedCameras(data.cameras)
                batch == IF data.physics # "none" THEN dynamic_scene'
                         ELSE static_scene'
            IN  /\ id \in DOMAIN entities'
                /\ \A k \in DOMAIN entities \ {id} :
                      k \in DOMAIN entities' /\ entities'[k] = entities[k]
                /\ e.mesh = data.mesh
                /\ e.isometry = data.isometry
                /\ Len(e.cameras) = Len(requested)
                /\ \A i \in 1..Len(requested) :
                      /\ e.cameras[i].camera = requested[i].camera
                      /\ e.cameras[i].renderer.extent = requested[i].extent
                      /\ e.cameras[i].renderer.staging_buffer = Unwritten
                /\ data.physics # "none" =>
                      /\ e.rigid_body_handle # NoHandle
                      /\ e.rigid_body_handle \notin DOMAIN rigid_body_set
                      /\ DOMAIN rigid_body_set' =
                            DOMAIN rigid_body_set \cup {e.rigid_body_handle}
                      /\ rigid_body_set'[e.rigid_body_handle].position =
                            data.isometry
                      /\ rigid_body_set'[e.rigid_body_handle].body_type =
                            data.physics
                /\ data.physics = "none" =>
                      /\ e.rigid_body_handle = NoHandle
                      /\ rigid_body_set' = rigid_body_set
                /\ id \in DOMAIN batch.objects
                /\ batch.objects[id] = transform(data.mesh, data.isometry)
                /\ batch.vertex_buffer_needs_update
      ]_vars

\* an entity with a body and a mesh that its isometry moves was added after
\* a step(), next to an entity with sensor cameras
C12_Witness ==
    /\ LogHas("add_entity")
    /\ steps >= 1
    /\ \E id \in DOMAIN entities :
          /\ call_log[1].id = id
          /\ entities[id].rigid_body_handle \in DOMAIN rigid_body_set
          /\ entities[id].isometry # Origin
          /\ dynamic_scene.objects[id] # entities[id].mesh
    /\ \E id \in DOMAIN entities : Len(entities[id].cameras) = MaxCameras

\* C13: remove_entity(id) asks both batches to remove id, so id is a key of
\* neither afterwards; for an id that is not in the world the entity map,
\* the body set (with its colliders), both object maps, both caches and both
\* dirty flags stay as they were; and a second remove_entity(id) right after
\* the first changes nothing
C13_RemoveAbsentIsNoOp ==
    [][ \A id \in Keys :
          RemoveEntity(id) =>
            LET again == GameWorld_remove_entity(World', id)
            IN  /\ \E i, j \in 1..Len(call_log') :
                      /\ call_log'[i] = Ev("remove_object_dynamic", id, 0)
                      /\ call_log'[j] = Ev("remove_object_static", id, 0)
                /\ id \notin DOMAIN dynamic_scene'.objects
                /\ id \notin DOMAIN static_scene'.objects
                /\ id \notin DOMAIN entities =>
                      UNCHANGED <<entities, rigid_body_set, dynamic_scene,
                                  static_scene, per_window_state,
                                  user_input_state, panicked>>
                /\ again.entities = entities'
                /\ again.rigid_body_set = rigid_body_set'
                /\ again.dynamic_scene = dynamic_scene'
                /\ again.static_scene = static_scene'
      ]_vars

\* remove_entity was called with an id that is not in a world that has
\* entities, bodies and a batch with a clean cache
C13_Witness ==
    /\ LogHas("remove_object_dynamic")
    /\ ~LogHas("removed")
    /\ entities # EmptyMap
    /\ rigid_body_set # EmptyMap
    /\ dynamic_scene.objects # EmptyMap
    /\ ~dynamic_scene.vertex_buffer_needs_update
    /\ dynamic_scene.vertex_buffer.some

\* C14: vertex_buffer() returns the cached buffer untouched when the flag is
\* clear and a newly built flattening of the object map when the flag is
\* set; it always leaves the flag clear; and a read that directly follows a
\* read returns the same buffer
C14_RebuildIffDirty ==
    [][ SceneVertexBuffer =>
          /\ ~scene'.vertex_buffer_needs_update
          /\ returned' = scene'.vertex_buffer
          /\ scene'.objects = scene.objects
          /\ ~scene.vertex_buffer_needs_update =>
                scene'.vertex_buffer = scene.vertex_buffer
          /\ scene.vertex_buffer_needs_update =>
                scene'.vertex_buffer \in Flattenings(scene.objects)
          /\ scene_op.op = "vertex_buffer" => returned' = returned
      ]_vars

\* a read with the flag clear, of a map whose iteration orders give
\* different buffers
C14_Witness ==
    /\ scene_op = [op |-> "vertex_buffer", key |-> 0, n |-> 0]
    /\ DOMAIN scene.objects = Keys
    /\ Cardinality(Flattenings(scene.objects)) > 1
    /\ returned.some

\* C15: add_object(key, vertices) leaves vertices as the list stored under
\* key and every other key as it was, sets the dirty flag even when key
\* already held the same list, and does not touch the cached buffer
C15_AddObjectReplacesAndDirties ==
    [][ \A key \in Keys, object \in VertexLists :
          SceneAddObject(key, object) =>
            /\ DOMAIN scene'.objects = DOMAIN scene.objects \cup {key}
            /\ scene'.objects[key] = object
            /\ \A k \in DOMAIN scene.objects \ {key} :
                  scene'.objects[k] = scene.objects[k]
            /\ scene'.vertex_buffer_needs_update
            /\ scene'.vertex_buffer = scene.vertex_buffer
            /\ returned' = returned
      ]_vars

\* the first add_object after a read stored a non-empty list and left the
\* cache equal to a flattening of the map: the list was already there
C15_Witness ==
    /\ scene_op.op = "add_object"
    /\ scene_op.n = 0
    /\ scene.vertex_buffer_needs_update
    /\ DOMAIN scene.objects = Keys
    /\ scene.objects[scene_op.key] # <<>>
    /\ scene.vertex_buffer \in Flattenings(scene.objects)

\* C16: remove_object(key) with key present deletes its list, keeps every
\* other list and sets the dirty flag; with key absent the object map, the
\* cached buffer and the flag are what they were
C16_RemoveObjectDirtiesOnlyIfPresent ==
    [][ \A key \in Keys :
          SceneRemoveObject(key) =>
            /\ key \in DOMAIN scene.objects =>
                  /\ DOMAIN scene'.objects = DOMAIN scene.objects \ {key}
                  /\ \A k \in DOMAIN scene'.objects :
                        scene'.objects[k] = scene.objects[k]
                  /\ scene'.vertex_buffer_needs_update
            /\ key \notin DOMAIN scene.objects =>
                  /\ scene'.objects = scene.objects
                  /\ scene'.vertex_buffer = scene.vertex_buffer
                  /\ scene'.vertex_buffer_needs_update =
                        scene.vertex_buffer_needs_update
            /\ returned' = returned
      ]_vars

\* a remove_object of an absent key left a clean scene clean
C16_Witness ==
    /\ scene_op.op = "remove_object"
    /\ ~scene.vertex_buffer_needs_update
    /\ scene.objects # EmptyMap
    /\ scene.vertex_buffer.some

\* C17: after a step() or render() that read the batches, a batch whose
\* object map is empty has returned the absent buffer (no panic), and every
\* sensor-camera render of a step() that completed drew exactly the buffers
\* of the batches that returned one
C17_EmptyBatchReadsAbsent ==
    LogHas("vertex_buffer_dynamic") =>
        /\ ~panicked
        /\ LogHas("vertex_buffer_static")
        /\ dynamic_scene.objects = EmptyMap =>
              dynamic_scene.vertex_buffer = NoBuffer
        /\ static_scene.objects = EmptyMap =>
              static_scene.vertex_buffer = NoBuffer
        /\ \A id \in DOMAIN observations :
              \A i \in 1..Len(observations[id]) :
                observations[id][i].frame = steps =>
                    /\ observations[id][i].buffers =
                          PresentBuffers([ dynamic_scene |-> dynamic_scene,
                                           static_scene |-> static_scene ])
                    /\ static_scene.objects = EmptyMap =>
                          Len(observations[id][i].buffers) <= 1
                    /\ dynamic_scene.objects = EmptyMap =>
                          Len(observations[id][i].buffers) <= 1

\* a step() rendered a sensor camera after the last object of the static
\* batch had been removed
C17_Witness ==
    /\ IsStepReturn
    /\ LogHas("rebuild_static")
    /\ static_scene.objects = EmptyMap
    /\ \E id \in DOMAIN observations :
          /\ Len(observations[id]) >= 1
          /\ observations[id][1].frame = steps
          /\ Len(observations[id][1].buffers) = 1

C19_MoveWhileDraggingSetsIncrement ==
    [][ \A extent \in Extents, event \in TrackballEvents :
          ( CameraHandleEvent(extent, event) /\ event.kind = "CursorMoved" ) =>
              IF trackball.mouse_location.some
              THEN trackball'.curr_q =
                     rotation_to(
                       normalize(project_trackball(DragAnchor(trackball))),
                       normalize(project_trackball(
                         get_normalized_mouse_coords(event.position, extent))))
              ELSE trackball'.curr_q = Identity
      ]_vars

\* C20: a pointer-up event during a drag ends the drag, makes the base
\* orientation the product of the incremental rotation held before the
\* event and the base orientation, and leaves the incremental rotation the
\* identity
C20_PointerUpCommits ==
    [][ \A extent \in Extents, event \in TrackballEvents :
          ( /\ CameraHandleEvent(extent, event)
            /\ event.kind = "MouseInput"
            /\ ~event.pressed
            /\ trackball.mouse_location.some ) =>
              /\ ~trackball'.mouse_location.some
              /\ trackball'.base_q = QMul(trackball.curr_q, trackball.base_q)
              /\ trackball'.curr_q = Identity
      ]_vars

\* a drag was released by a camera whose base orientation an earlier
\* release and update() had turned
C20_Witness ==
    /\ camera_op.kind = "MouseInput"
    /\ ~camera_op.pressed
    /\ camera_op.dragging
    /\ trackball.base_q # Identity
    /\ trackball.momentum_magnitude = One

C22_UpdateBlendsThenDecays ==
    [][ CameraUpdate =>
          IF ~trackball.mouse_location.some
          THEN /\ trackball'.base_q =
                    QMul(slerp(Identity, trackball.momentum_q,
                               trackball.momentum_magnitude),
                         trackball.base_q)
               /\ trackball'.momentum_magnitude[1]
                    * trackball.momentum_magnitude[2] * 10 =
                  trackball.momentum_magnitude[1]
                    * trackball'.momentum_magnitude[2] * 9
               /\ trackball'.momentum_q = trackball.momentum_q
               /\ trackball'.curr_q = trackball.curr_q
               /\ ~trackball'.mouse_location.some
          ELSE /\ trackball'.base_q = trackball.base_q
               /\ trackball'.curr_q = trackball.curr_q
               /\ trackball'.momentum_q = trackball.momentum_q
               /\ trackball'.momentum_magnitude = trackball.momentum_magnitude
      ]_vars

\* two update() calls turned the base orientation after a release whose
\* momentum is a rotation
C22_Witness ==
    /\ camera_op.kind = "update"
    /\ ~camera_op.dragging
    /\ trackball.momentum_q # Identity
    /\ trackball.momentum_magnitude = <<81, 100>>
    /\ Len(trackball.base_q) = 2

RECURSIVE Pow(_, _)
Pow(b, n) == IF n = 0 THEN 1 ELSE b * Pow(b, n - 1)

MinSide(extent) == IF extent[1] < extent[2] THEN extent[1] ELSE extent[2]

\* C26 as stated: the normalized position stored by a press is the pointer's
\* offset from the viewport centre divided by min(w, h), on both axes
C26_NormalizedIsOffsetOverMinSide ==
    [][ \A extent \in Extents, event \in TrackballEvents :
          ( /\ CameraHandleEvent(extent, event)
            /\ event.kind = "MouseInput"
            /\ event.pressed ) =>
              LET e == trackball.user_input_state.x
                  q == trackball'.mouse_location.curr
              IN  \A i \in 1..2 :
                    2 * q[i][1] * MinSide(extent) =
                        (2 * e[i] - extent[i]) * q[i][2]
      ]_vars

\* C26 amended: get_normalized_mouse_coords((x, y), (w, h)) is twice the
\* pointer's offset from the viewport centre divided by min(w, h), on both
\* axes; the centre maps to (0, 0)
C26_NormalizedIsTwiceOffsetOverMinSide ==
    [][ \A extent \in Extents, event \in TrackballEvents :
          ( /\ CameraHandleEvent(extent, event)
            /\ event.kind = "MouseInput"
            /\ event.pressed ) =>
              LET e == trackball.user_input_state.x
                  q == trackball'.mouse_location.curr
              IN  /\ \A i \in 1..2 :
                        /\ q[i][2] > 0
                        /\ q[i][1] * MinSide(extent) =
                              (2 * e[i] - extent[i]) * q[i][2]
                  /\ ( 2 * e[1] = extent[1] /\ 2 * e[2] = extent[2] ) =>
                        q = << Zero, Zero >>
      ]_vars

\* a press with the pointer one pixel right of and one pixel above the
\* centre of a viewport that is higher than wide
C26_Witness ==
    /\ camera_op.kind = "MouseInput"
    /\ camera_op.pressed
    /\ camera_op.extent = <<2, 4>>
    /\ camera_op.pointer = <<2, 1>>
    /\ trackball.mouse_location.curr = << One, <<-1, 1>> >>

\* C25: whatever keys are held and however often apply_to_camera is called,
\* the pitch of the camera stays within -89 and +89 degrees, and the yaw
\* moves by a whole step for each of left and right that is held, whatever
\* its value
C25_PitchStaysWithinLimit ==
    [][ KeyboardApplyToCamera =>
          /\ perspective'.pitch <= PitchLimit
          /\ perspective'.pitch >= -PitchLimit
          /\ perspective'.yaw - perspective.yaw =
                RotateStep * ( (IF keyboard_state["right"] THEN 1 ELSE 0)
                               - (IF keyboard_state["left"] THEN 1 ELSE 0) )
      ]_vars

\* the third apply_to_camera in a row with up and left held: the pitch
\* stopped at the limit and the yaw went on past half a turn
C25_Witness ==
    /\ keyboard_op.kind = "apply"
    /\ keyboard_op.applies = 3
    /\ keyboard_state["up"] /\ ~keyboard_state["down"]
    /\ keyboard_state["left"] /\ ~keyboard_state["right"]
    /\ perspective.pitch = PitchLimit
    /\ perspective.yaw = InitialYaw - 3 * RotateStep

\* C27: a render() of the window's renderer in which the acquire or the
\* flush answers out-of-date does not panic, sets wdd_needs_rebuild and
\* presents no frame; and the first render() with a non-zero extent after
\* it starts by rebuilding the swapchain
C27_OutOfDateIsRecoverable ==
    [][ LET extent == renderer_op'.extent
            outcome == renderer_op'.outcome
        IN  ( /\ renderer_op'.kind = "render"
              /\ RendererRender(extent, outcome) ) =>
            /\ ( NonZero(extent) /\ renderer_op'.stale ) =>
                  /\ ~renderer3d'.panicked
                  /\ renderer3d'.wdd_needs_rebuild
                  /\ "present" \notin Effects(renderer3d')
                  /\ renderer3d'.presented = renderer3d.presented
            /\ ( NonZero(extent) /\ renderer_op.stale ) =>
                  /\ renderer3d'.effects # <<>>
                  /\ Head(renderer3d'.effects) = "rebuild"
                  /\ outcome.recreate_ok =>
                        renderer3d'.swapchain =
                          [ image_extent |-> extent,
                            recreated |->
                                renderer3d.swapchain.recreated + 1 ]
      ]_vars

\* after an out-of-date answer and a render() on a minimized window, a
\* render() rebuilt the swapchain for the new extent and presented a frame
C27_Witness ==
    /\ renderer_op.kind = "render"
    /\ renderer_op.was_stale
    /\ ~renderer3d.panicked
    /\ renderer3d.effects = << "rebuild", "acquire", "submit", "present" >>
    /\ renderer3d.swapchain = [ image_extent |-> <<4, 2>>, recreated |-> 1 ]
    /\ frames >= 3

\* C28: a render() in which the acquire or the flush answers an error other
\* than out-of-date does not return: the window's renderer panics, and no
\* offscreen render() returns after a failed flush
C28_OtherErrorsAreFatal ==
    [][ /\ LET extent == renderer_op'.extent
                outcome == renderer_op'.outcome
            IN  ( /\ renderer_op'.kind = "render"
                  /\ RendererRender(extent, outcome)
                  /\ \/ /\ "acquire" \in Effects(renderer3d')
                        /\ outcome.acquire = "error"
                     \/ /\ "submit" \in Effects(renderer3d')
                        /\ outcome.flush = "error" ) =>
                    renderer3d'.panicked
        /\ \A flush_ok \in BOOLEAN : OffscreenRender(flush_ok) => flush_ok
      ]_vars

\* C29: get_image_data of an offscreen renderer returns the pixels of the
\* render() submitted last to that renderer, also when the flush of that
\* render() failed
C29_ReadbackIsLastRender ==
    ( renderer_op.kind = "get_image" /\ renderer_op.submitted > 0 ) =>
        renderer_op.image.frame = renderer_op.submitted

\* C30 as stated: every GameWorld call that is not step() leaves the body
\* set (bodies with their colliders) as it was
C30_BodiesChangeOnlyInStep ==
    [][ ( calls' = calls + 1 /\ steps' = steps ) =>
            rigid_body_set' = rigid_body_set
      ]_vars

\* C30 amended: render() and handle_window_event leave the body set as it
\* was; add_entity inserts one body when a physics descriptor is given and
\* none otherwise, and remove_entity removes the body of the entity it
\* removes and no other; neither changes a body that stays in the set
C30_BodiesChangeInStepAddRemove ==
    [][ /\ ( Render \/ events' = events + 1 ) =>
              rigid_body_set' = rigid_body_set
        /\ \A id \in Keys, data \in EntityCreationDatas :
              AddEntity(id, data) =>
                /\ \A h \in DOMAIN rigid_body_set :
                      /\ h \in DOMAIN rigid_body_set'
                      /\ rigid_body_set'[h] = rigid_body_set[h]
                /\ Cardinality(DOMAIN rigid_body_set'
                                 \ DOMAIN rigid_body_set) =
                      IF data.physics # "none" THEN 1 ELSE 0
        /\ \A id \in Keys :
              RemoveEntity(id) =>
                /\ \A h \in DOMAIN rigid_body_set' :
                      /\ h \in DOMAIN rigid_body_set
                      /\ rigid_body_set'[h] = rigid_body_set[h]
                /\ DOMAIN rigid_body_set \ DOMAIN rigid_body_set' =
                      IF id \in DOMAIN entities
                         /\ entities[id].rigid_body_handle # NoHandle
                      THEN { entities[id].rigid_body_handle }
                      ELSE {}
      ]_vars

\* remove_entity took the body of an entity out of a set that still holds
\* a body that a step() has moved
C30_Witness ==
    /\ LogHas("removed")
    /\ call_log[1].cam # NoHandle
    /\ call_log[1].cam \notin DOMAIN rigid_body_set
    /\ steps >= 1
    /\ \E h \in DOMAIN rigid_body_set :
          rigid_body_set[h].position # Origin
          /\ rigid_body_set[h].position # Raised

\* C39: a pointer-up event handled while no drag is under way leaves
\* base_q, curr_q, momentum_q and momentum_magnitude as they were, and no
\* drag is under way after it
C39_ReleaseWhileIdleChangesNothing ==
    [][ \A extent \in Extents, event \in TrackballEvents :
          ( /\ CameraHandleEvent(extent, event)
            /\ event.kind = "MouseInput"
            /\ ~event.pressed
            /\ ~trackball.mouse_location.some ) =>
              /\ trackball'.base_q = trackball.base_q
              /\ trackball'.curr_q = trackball.curr_q
              /\ trackball'.momentum_q = trackball.momentum_q
              /\ trackball'.momentum_magnitude = trackball.momentum_magnitude
              /\ ~trackball'.mouse_location.some
      ]_vars

\* a release handled outside a drag, by a camera that still turns with the
\* decaying momentum of an earlier drag
C39_Witness ==
    /\ camera_op.kind = "MouseInput"
    /\ ~camera_op.pressed
    /\ ~camera_op.dragging
    /\ ~trackball.mouse_location.some
    /\ trackball.momentum_q # Identity
    /\ trackball.momentum_magnitude = <<9, 10>>
    /\ trackball.base_q # Identity

\* the number of times a render() did what ev names
EffectCount(r, ev) ==
    Cardinality({ i \in DOMAIN r.effects : r.effects[i] = ev })

\* C38: a render() on a zero-sized window does nothing and keeps
\* wdd_needs_rebuild as it is; a render() on a window with a non-zero
\* extent that finds the flag set rebuilds the swapchain once, before it
\* acquires an image, and the flag is set after it only if this render()
\* itself got a suboptimal or out-of-date answer; a render() that finds the
\* flag clear does not rebuild; and a suboptimal acquire sets the flag and
\* still submits the frame, which is presented when the flush succeeds
C38_RebuildFlagIsSticky ==
    [][ LET extent == renderer_op'.extent
            outcome == renderer_op'.outcome
        IN  ( /\ renderer_op'.kind = "render"
              /\ RendererRender(extent, outcome) ) =>
            /\ ~NonZero(extent) =>
                  /\ renderer3d'.wdd_needs_rebuild =
                        renderer3d.wdd_needs_rebuild
                  /\ renderer3d'.effects = <<>>
                  /\ renderer3d'.swapchain = renderer3d.swapchain
            /\ ( NonZero(extent) /\ renderer3d.wdd_needs_rebuild
                 /\ outcome.recreate_ok ) =>
                  /\ EffectCount(renderer3d', "rebuild") = 1
                  /\ Len(renderer3d'.effects) >= 2
                  /\ renderer3d'.effects[1] = "rebuild"
                  /\ renderer3d'.effects[2] = "acquire"
                  /\ renderer3d'.swapchain.recreated =
                        renderer3d.swapchain.recreated + 1
                  /\ renderer3d'.wdd_needs_rebuild =
                        ( \/ outcome.acquire \in {"out_of_date", "suboptimal"}
                          \/ /\ outcome.acquire = "ok"
                             /\ outcome.flush = "out_of_date" )
            /\ ( NonZero(extent) /\ ~renderer3d.wdd_needs_rebuild ) =>
                  /\ "rebuild" \notin Effects(renderer3d')
                  /\ renderer3d'.swapchain = renderer3d.swapchain
            /\ ( "acquire" \in Effects(renderer3d')
                 /\ outcome.acquire = "suboptimal" ) =>
                  /\ renderer3d'.wdd_needs_rebuild
                  /\ "submit" \in Effects(renderer3d')
                  /\ outcome.flush = "ok" =>
                        /\ "present" \in Effects(renderer3d')
                        /\ renderer3d'.presented = frames'
      ]_vars

\* the first render() after a minimized window found the flag set, rebuilt
\* once, got a suboptimal image, presented the frame and left the flag set
C38_Witness ==
    /\ renderer_op.kind = "render"
    /\ renderer_op.resumed
    /\ renderer_op.outcome.acquire = "suboptimal"
    /\ renderer3d.effects = << "rebuild", "acquire", "submit", "present" >>
    /\ renderer3d.wdd_needs_rebuild
    /\ renderer3d.swapchain.recreated = 1

\* C40: after new() and after every render() that returns, on every path,
\* previous_frame_end of the window's renderer and of the offscreen
\* renderer holds a future, and no render() panics
\* for want of one
C40_PreviousFrameEndIsSome ==
    /\ offscreen.previous_frame_end \in {"now", "frame"}
    /\ renderer3d.previous_frame_end \in {"now", "frame"}
    /\ ( renderer3d.panicked /\ renderer_op.kind = "render" ) =>
          \/ "acquire" \in Effects(renderer3d)
          \/ "rebuild" \in Effects(renderer3d)

\* the window's renderer returned from a render() whose flush failed, next
\* to an offscreen renderer whose last flush failed after an earlier frame
\* had been written
C40_Witness ==
    /\ renderer_op.kind = "render"
    /\ renderer_op.outcome.flush = "error"
    /\ "submit" \in Effects(renderer3d)
    /\ ~renderer3d.panicked
    /\ renderer3d.previous_frame_end = "now"
    /\ offscreen.previous_frame_end = "now"
    /\ offscreen.staging_buffer.frame > 0

\* the world holds one entity, and its body is dynamic
OneDynamicEntity(id) ==
    /\ DOMAIN entities = {id}
    /\ entities[id].rigid_body_handle # NoHandle
    /\ entities[id].rigid_body_handle \in DOMAIN rigid_body_set
    /\ rigid_body_set[entities[id].rigid_body_handle].body_type = "dynamic"

\* C31 as stated: a step() of a world whose one entity has a dynamic body
\* and is at the identity isometry lowers translation.y, stores
\* transform(mesh, new isometry) for it in the dynamic batch, and returns
\* with the dynamic batch dirty
C31_FallingEntityLeavesBatchDirty ==
    [][ StepTaken =>
          \A id \in Keys :
            ( OneDynamicEntity(id) /\ entities[id].isometry = Origin ) =>
              /\ entities'[id].isometry.translation[2] <
                    entities[id].isometry.translation[2]
              /\ dynamic_scene'.objects[id] =
                    transform(entities'[id].mesh, entities'[id].isometry)
              /\ dynamic_scene'.vertex_buffer_needs_update
      ]_vars

\* C31 amended: a step() of a world whose one entity has a dynamic body
\* lowers translation.y and stores transform(mesh, new isometry) for it in
\* the dynamic batch, which the sync marks dirty; the batch is still dirty
\* when step() returns exactly when the entity has no sensor camera, whose
\* render in the same step() reads the batch and rebuilds it
C31_FallingEntityRewritesBatch ==
    [][ StepTaken =>
          \A id \in Keys :
            OneDynamicEntity(id) =>
              /\ entities'[id].isometry.translation[2] <
                    entities[id].isometry.translation[2]
              /\ dynamic_scene'.objects[id] =
                    transform(entities'[id].mesh, entities'[id].isometry)
              /\ \E i \in 1..Len(call_log') :
                    /\ call_log'[i] = Ev("add_object_dynamic", id, 0)
                    /\ \A j \in 1..(i - 1) :
                          call_log'[j].ev \notin
                            {"rebuild_dynamic", "vertex_buffer_dynamic"}
              /\ dynamic_scene'.vertex_buffer_needs_update =
                    (Len(entities[id].cameras) = 0)
              /\ Len(entities[id].cameras) > 0 =>
                    LogCount("rebuild_dynamic")' = 1
      ]_vars

\* the first step() of a world whose one entity was created at the identity
\* isometry with a dynamic body and a sensor camera: the entity has fallen
\* and the camera's render has rebuilt the dynamic batch
C31_Witness ==
    /\ IsStepReturn
    /\ steps = 1
    /\ \E id \in Keys :
          /\ OneDynamicEntity(id)
          /\ created[id].isometry = Origin
          /\ entities[id].isometry.translation[2] < 0
          /\ Len(entities[id].cameras) > 0
    /\ LogHas("rebuild_dynamic")
    /\ ~dynamic_scene.vertex_buffer_needs_update

\* the sensor cameras of a world, as pairs of entity id and camera index
SensorCameras(ents) ==
    { c \in Keys \X (1..(MaxCameras + 1)) :
        c[1] \in DOMAIN ents /\ c[2] <= Len(ents[c[1]].cameras) }

\* the places in a log where ev was logged for camera c
LogPlaces(log, ev, c) ==
    { i \in 1..Len(log) : log[i] = Ev(ev, c[1], c[2]) }

\* C32: in every step(), with or without a window camera, each sensor
\* camera of each entity is set to the isometry the entity has after the
\* sync and is then rendered offscreen, once each, so the step() makes as
\* many offscreen renders as the world has sensor cameras
C32_EverySensorCameraRendersOnce ==
    [][ StepTaken =>
          /\ \A c \in SensorCameras(entities) :
                LET set == LogPlaces(call_log', "camera_set_position", c)
                    ren == LogPlaces(call_log', "render", c)
                    sync == { i \in 1..Len(call_log') :
                                call_log'[i].ev \in SyncWrites \cup {"sync"} }
                IN  /\ Cardinality(set) = 1
                    /\ Cardinality(ren) = 1
                    /\ \A i \in set, j \in ren : i < j
                    /\ \A i \in sync, j \in set : i < j
                    /\ entities'[c[1]].cameras[c[2]].camera =
                          entities'[c[1]].isometry
          /\ LogCount("render")' = Cardinality(SensorCameras(entities))
          /\ LogCount("camera_set_position")' =
                Cardinality(SensorCameras(entities))
      ]_vars

\* a step() of a world with no window and two sensor cameras made two
\* offscreen renders, from where the entities are after they fell
C32_Witness ==
    /\ IsStepReturn
    /\ ~per_window_state.some
    /\ Cardinality(SensorCameras(entities)) = 2
    /\ LogCount("render") = 2
    /\ \A c \in SensorCameras(entities) :
          /\ entities[c[1]].isometry # created[c[1]].isometry
          /\ entities[c[1]].cameras[c[2]].camera = entities[c[1]].isometry

\* C33: a step() of a world with a window camera whose tracked entity is in
\* the map moves the camera to where the entity is after the sync and
\* calls its update() once, after every offscreen render of the step();
\* render() and handle_window_event never call update()
C33_WindowCameraUpdatesOncePerStep ==
    [][ /\ ( StepTaken /\ TrackedPresent ) =>
              LET log == call_log'
                  upd == { i \in 1..Len(log) :
                             log[i].ev = "window_camera_update" }
              IN  /\ Cardinality(upd) = 1
                  /\ \A i \in upd, j \in 1..Len(log) :
                        log[j].ev \in {"render", "camera_set_position",
                                       "sync"} \cup SyncWrites => j < i
                  /\ per_window_state'.camera.root_pos =
                        entities'[Tracked].isometry.translation
                  /\ per_window_state'.camera.rotation =
                        entities'[Tracked].isometry.rotation
                  /\ per_window_state'.camera.mouse_location =
                        per_window_state.camera.mouse_location
                  /\ per_window_state'.camera.momentum_magnitude =
                        Camera_update(per_window_state.camera)
                          .momentum_magnitude
        /\ Render =>
              /\ per_window_state' = per_window_state
              /\ \A i \in 1..Len(call_log') :
                    call_log'[i].ev # "window_camera_update"
        /\ events' = events + 1 =>
              /\ \A i \in 1..Len(call_log') :
                    call_log'[i].ev # "window_camera_update"
              /\ per_window_state.some =>
                    /\ per_window_state'.camera.root_pos =
                          per_window_state.camera.root_pos
                    /\ \E input \in WindowEvents :
                          per_window_state'.camera =
                            Camera_handle_event(per_window_state.camera,
                                                input)
      ]_vars

\* a step() rendered the sensor camera of the tracked entity and then
\* updated the window camera, released from a drag, at the place the
\* entity fell to
C33_Witness ==
    /\ IsStepReturn
    /\ TrackedPresent
    /\ LogHas("render")
    /\ LogHas("window_camera_update")
    /\ entities[Tracked].isometry # created[Tracked].isometry
    /\ per_window_state.camera.root_pos =
          entities[Tracked].isometry.translation
    /\ per_window_state.camera.momentum_magnitude >= 1

\* the calls that change the object map of a batch, and the reads of a
\* batch's buffer
BatchWrites ==
    SyncWrites \cup { "remove_object_dynamic", "remove_object_static" }
BatchReads == { "vertex_buffer_dynamic", "vertex_buffer_static" }

\* in the log of one step(): no object map is written after the first
\* buffer read, and each batch is rebuilt at most once
FrozenAfterFirstRead(log) ==
    /\ \A i, j \in 1..Len(log) :
          (log[i].ev \in BatchReads /\ log[j].ev \in BatchWrites) => j < i
    /\ Cardinality({ i \in 1..Len(log) : log[i].ev = "rebuild_dynamic" }) <= 1
    /\ Cardinality({ i \in 1..Len(log) : log[i].ev = "rebuild_static" }) <= 1

\* the sensor cameras of ents whose staging buffer was written in frame
DrawnIn(ents, frame) ==
    { c \in SensorCameras(ents) :
        ents[c[1]].cameras[c[2]].renderer.staging_buffer.frame = frame }

\* what a step() does to the batches: every sensor-camera render of the
\* step() drew the pair of buffers the batches hold when it returns
StepDrawsOnePair ==
    StepTaken =>
       /\ FrozenAfterFirstRead(call_log')
       /\ \A c \in DrawnIn(entities', steps') :
             entities'[c[1]].cameras[c[2]].renderer.staging_buffer.buffers
                = PresentBuffers(World')

\* a render() to the window that rebuilt neither batch and left both
\* buffers as they were
RenderReusesBuffers ==
    /\ \A i \in 1..Len(call_log') :
          call_log'[i].ev \notin { "rebuild_dynamic", "rebuild_static" }
    /\ dynamic_scene'.vertex_buffer = dynamic_scene.vertex_buffer
    /\ static_scene'.vertex_buffer = static_scene.vertex_buffer
    /\ PresentBuffers(World') = PresentBuffers(World)

\* C34 as stated: no step() writes an object map after its first buffer
\* read, each batch is rebuilt at most once per step(), its sensor-camera
\* renders draw one pair of buffers, and a render() that directly follows
\* a step() draws the buffers as they are, without rebuilding
C34_RenderAfterStepNeverRebuilds ==
    [][ /\ StepDrawsOnePair
        /\ ( IsStepReturn /\ per_window_state.some /\ Render ) =>
              RenderReusesBuffers
      ]_vars

\* C34, amended: no step() writes an object map after its first buffer
\* read, each batch is rebuilt at most once per step() and its
\* sensor-camera renders draw one pair of buffers; a step() that made a
\* sensor-camera render leaves both batches clean, so a render() that
\* follows it draws those same buffers without rebuilding, while after a
\* step() without a sensor-camera render the render() rebuilds exactly
\* the batches that are dirty, among them the dynamic batch if the sync
\* wrote to it
C34_RenderAfterSensorRenderReusesBuffers ==
    [][ /\ StepDrawsOnePair
        /\ ( StepTaken /\ LogCount("render")' > 0 ) =>
              /\ ~dynamic_scene'.vertex_buffer_needs_update
              /\ ~static_scene'.vertex_buffer_needs_update
        /\ events' = events + 1 =>
              /\ dynamic_scene' = dynamic_scene
              /\ static_scene' = static_scene
        /\ ( per_window_state.some /\ Render ) =>
              /\ LogHas("rebuild_dynamic")' <=>
                    dynamic_scene.vertex_buffer_needs_update
              /\ LogHas("rebuild_static")' <=>
                    static_scene.vertex_buffer_needs_update
              /\ ( /\ ~dynamic_scene.vertex_buffer_needs_update
                    /\ ~static_scene.vertex_buffer_needs_update ) =>
                    RenderReusesBuffers
              /\ ( IsStepReturn /\ LogHas("render") ) =>
                    /\ RenderReusesBuffers
                    /\ \A c \in DrawnIn(entities, steps) :
                          entities[c[1]].cameras[c[2]].renderer
                                .staging_buffer.buffers
                             = PresentBuffers(World')
              /\ ( /\ IsStepReturn
                    /\ ~LogHas("render")
                    /\ LogHas("add_object_dynamic") ) =>
                    LogHas("rebuild_dynamic")'
      ]_vars

\* add_entity, step(), render(): the step() rendered the entity's sensor
\* camera after the entity fell, and the render() to the window that
\* followed drew the buffers of that offscreen render without rebuilding
C34_Witness ==
    /\ calls = 3
    /\ steps = 1
    /\ per_window_state.some
    /\ LogHas("window_render")
    /\ ~LogHas("rebuild_dynamic")
    /\ ~LogHas("rebuild_static")
    /\ DrawnIn(entities, 1) # {}
    /\ \A c \in DrawnIn(entities, 1) :
          /\ entities[c[1]].isometry # created[c[1]].isometry
          /\ entities[c[1]].cameras[c[2]].renderer.staging_buffer.buffers
                = PresentBuffers(World)
          /\ PresentBuffers(World) # <<>>

\* the transform the sync of the next step() reads for entity id: where
\* the physics step puts its body, or its own isometry if it has no body
AuthoritativeTransform(id) ==
    IF entities[id].rigid_body_handle = NoHandle
    THEN entities[id].isometry
    ELSE physics_pipeline_step(rigid_body_set)
            [entities[id].rigid_body_handle].position

\* C35: a step() in which every entity's authoritative transform equals
\* its stored isometry writes to neither batch and sets neither dirty
\* flag; no step() writes to the static batch or sets its flag, whatever
\* the entities without a body are, and the object map of the static
\* batch changes and its flag is set only in add_entity and remove_entity
C35_UnmovedEntitiesWriteNothing ==
    [][ /\ ( /\ StepTaken
              /\ \A id \in DOMAIN entities :
                    AuthoritativeTransform(id) = entities[id].isometry ) =>
              /\ \A i \in 1..Len(call_log') :
                    call_log'[i].ev \notin BatchWrites
              /\ dynamic_scene'.objects = dynamic_scene.objects
              /\ static_scene'.objects = static_scene.objects
              /\ dynamic_scene'.vertex_buffer_needs_update =>
                    dynamic_scene.vertex_buffer_needs_update
              /\ static_scene'.vertex_buffer_needs_update =>
                    static_scene.vertex_buffer_needs_update
              /\ \A id \in DOMAIN entities :
                    entities'[id].isometry = entities[id].isometry
        /\ StepTaken =>
              /\ \A i \in 1..Len(call_log') :
                    call_log'[i].ev \notin
                       { "add_object_static", "remove_object_static" }
              /\ static_scene'.objects = static_scene.objects
              /\ static_scene'.vertex_buffer_needs_update =>
                    static_scene.vertex_buffer_needs_update
        /\ ( \/ static_scene'.objects # static_scene.objects
              \/ /\ static_scene'.vertex_buffer_needs_update
                  /\ ~static_scene.vertex_buffer_needs_update ) =>
              /\ steps' = steps
              /\ \/ LogHas("add_entity")'
                 \/ LogHas("remove_object_static")'
      ]_vars

\* a step() of a world holding an entity without a body and an entity
\* with a fixed body returned without a write to either batch, and the
\* entities are where they were created
C35_Witness ==
    /\ IsStepReturn
    /\ \E id \in DOMAIN entities : entities[id].rigid_body_handle = NoHandle
    /\ \E id \in DOMAIN entities :
          /\ entities[id].rigid_body_handle \in DOMAIN rigid_body_set
          /\ rigid_body_set[entities[id].rigid_body_handle].body_type
                = "fixed"
    /\ \A i \in LogIndices : call_log[i].ev \notin BatchWrites
    /\ \A id \in DOMAIN entities :
          entities[id].isometry = created[id].isometry
    /\ DOMAIN static_scene.objects # {}
    /\ DOMAIN dynamic_scene.objects # {}

\* the entities in the map whose physics handle is h
OwnersOf(h) ==
    { id \in DOMAIN entities : entities[id].rigid_body_handle = h }

\* C36 (as claimed): after any sequence of add_entity, remove_entity and
\* step() calls, also with add_entity on an id in use, every body in the
\* rigid body set is the body of exactly one entity in the map
C36_NoOrphanBody ==
    \A h \in DOMAIN rigid_body_set : Cardinality(OwnersOf(h)) = 1

\* C37: in every state the physics handle of every entity in the map is
\* the handle of a body in the rigid body set and of no other entity, and
\* no step() has failed in the position query or the impulse application
C37_HandlesReferToBodies ==
    /\ ~panicked
    /\ \A id \in DOMAIN entities :
          entities[id].rigid_body_handle # NoHandle =>
             /\ entities[id].rigid_body_handle \in DOMAIN rigid_body_set
             /\ OwnersOf(entities[id].rigid_body_handle) = {id}

\* two add_entity calls with physics, remove_entity of the untracked
\* entity, then a step() that queried the position of the tracked
\* entity's body and applied the impulse to it
C37_Witness ==
    /\ IsStepReturn
    /\ calls = 4
    /\ next_handle = 3
    /\ Cardinality(DOMAIN rigid_body_set) = 1
    /\ TrackedPresent
    /\ entities[Tracked].rigid_body_handle \in DOMAIN rigid_body_set
    /\ LogHas("impulse")
    /\ LogHas("add_object_dynamic")

====
